---- MODULE Spec2Model ----
(***************************************************************************)
(* Role-based CRM backend: the ownership graph (users, teams), the owned   *)
(* records (prospects, sales, call logs), the transfer engine and the      *)
(* role-scoped reads, as the controllers implement them on the store.      *)
(*                                                                         *)
(* A collection is a function from the ids of its documents to records.    *)
(* Ids are handed out by per-collection counters and are never reused, as  *)
(* ObjectIds are.  A null or unset reference is Null.                      *)
(***************************************************************************)
EXTENDS Integers, Sequences, FiniteSets, TLC

\* ---------------------------------------------------------------- bounds
MaxUsers == 4
MaxTeams == 2
MaxOps == 4
MaxEdits == 1
MaxProspects == 2
MaxSales == 1
MaxCallLogs == 1
MaxTransfers == 2

\* ------------------------------------------------------------- constants
Null == 0

SALES_EXECUTIVE == "sales_executive"
TEAM_LEAD == "team_lead"
MANAGER == "manager"
ROLES == {SALES_EXECUTIVE, TEAM_LEAD, MANAGER}

UserIds == 1..MaxUsers
\* A User document as created: the profile fields (name standing for name,
\* email, contactNo and location) as given, status by its schema default.
NewUser(role, manager, team) ==
    [role |-> role, manager |-> manager, team |-> team,
     name |-> "given", status |-> "active", refId |-> "given",
     bankDetails |-> "given"]

\* An id the store never hands out: what a caller can put in a request
\* without it naming any document the server created.
ForeignUser == MaxUsers + 1
ForeignTeam == MaxTeams + 1
ForeignProspect == MaxProspects + 1
ForeignSale == MaxSales + 1
ForeignCallLog == MaxCallLogs + 1

VARIABLES
    users,        \* User collection: id -> [role, manager, team]
    teams,        \* Team collection: id -> [teamLead]
    prospects,    \* Prospect collection: id -> [salesExecutive, teamLead, activity, isUntouched]
    sales,        \* Sales collection: id -> [salesExecutive, teamLead, prospect]
    callLogs,     \* CallLog collection: id -> [salesExecutive, prospect, activity]
    transferLogs, \* TransferLog collection, in order of creation
    nextId,       \* next fresh id per collection
    reqs,         \* requests in flight: slot -> the handler's position and locals
    resp,         \* the response of the last request that completed
    ops,          \* number of user and team requests served
    edits,        \* number of structural updateUser requests served
    transfers     \* number of internal transfer requests accepted

org == <<users, teams>>
data == <<prospects, sales, callLogs, transferLogs>>
vars == <<users, teams, prospects, sales, callLogs, transferLogs,
          nextId, reqs, resp, ops, edits, transfers>>
budget == <<ops, edits, transfers>>

\* authMiddleware.restrictTo(...roles)
restrictTo(roles, role) == role \in roles

\* ------------------------------------------------------------ store helpers
Insert(coll, id, doc) ==
    [x \in DOMAIN coll \cup {id} |-> IF x = id THEN doc ELSE coll[x]]

Remove(coll, id) == [x \in DOMAIN coll \ {id} |-> coll[x]]

\* Team.findOne({ teamLead: lead }): the ids of the matching documents
TeamsLedBy(tms, lead) == {t \in DOMAIN tms : tms[t].teamLead = lead}

OneOf(S) == CHOOSE x \in S : TRUE

\* User.findByIdAndUpdate(id, { $set/$unset: { team } }): no document, no write
SetUserTeam(us, id, team) ==
    IF id \in DOMAIN us THEN [us EXCEPT ![id].team = team] ELSE us

Idle == [op |-> "idle"]
AllIdle == \A s \in DOMAIN reqs : reqs[s] = Idle

\* ids the store has handed out so far (their documents may be deleted since)
AllocUsers == 1..(nextId.user - 1)
AllocTeams == 1..(nextId.team - 1)

\* ------------------------------------------------------------------ signup
\* POST /auth/signup with the role's reference id: no caller identity.
SignupResult(us, tms, ids, role) ==
    LET uid == ids.user
        us1 == Insert(us, uid, NewUser(role, Null, Null))
    IN IF role = TEAM_LEAD
       THEN [status |-> 201,
             users |-> SetUserTeam(us1, uid, ids.team),
             teams |-> Insert(tms, ids.team, [teamLead |-> uid]),
             nextId |-> [ids EXCEPT !.user = @ + 1, !.team = @ + 1]]
       ELSE [status |-> 201, users |-> us1, teams |-> tms,
             nextId |-> [ids EXCEPT !.user = @ + 1]]

signup(role) ==
    /\ AllIdle
    /\ ops < MaxOps
    /\ nextId.user <= MaxUsers
    /\ role = TEAM_LEAD => nextId.team <= MaxTeams
    /\ LET r == SignupResult(users, teams, nextId, role)
       IN /\ users' = r.users
          /\ teams' = r.teams
          /\ nextId' = r.nextId
          /\ resp' = [op |-> "signup", status |-> r.status]
    /\ ops' = ops + 1
    /\ UNCHANGED <<data, reqs, edits, transfers>>

\* -------------------------------------------------------------- createUser
\* POST /users/createUser, restricted to manager and team_lead by the route.
CreateUserResult(us, tms, ids, caller, role, assignedTeamLeadId) ==
    LET cr == us[caller].role
        fail(code) == [status |-> code, users |-> us, teams |-> tms, nextId |-> ids]
        uid == ids.user
        create(mgr, team) ==
            LET us1 == Insert(us, uid, NewUser(role, mgr, team))
            IN IF role = TEAM_LEAD /\ cr = MANAGER
               THEN [status |-> 201,
                     users |-> SetUserTeam(us1, uid, ids.team),
                     teams |-> Insert(tms, ids.team, [teamLead |-> uid]),
                     nextId |-> [ids EXCEPT !.user = @ + 1, !.team = @ + 1]]
               ELSE [status |-> 201, users |-> us1, teams |-> tms,
                     nextId |-> [ids EXCEPT !.user = @ + 1]]
    IN IF cr = MANAGER /\ role \notin {TEAM_LEAD, SALES_EXECUTIVE} THEN fail(403)
       ELSE IF cr = TEAM_LEAD /\ role # SALES_EXECUTIVE THEN fail(403)
       ELSE IF cr \notin {MANAGER, TEAM_LEAD} THEN fail(403)
       ELSE IF cr = MANAGER
       THEN IF assignedTeamLeadId # Null
            THEN IF ~(assignedTeamLeadId \in DOMAIN us
                      /\ us[assignedTeamLeadId].role = TEAM_LEAD)
                 THEN fail(400)
                 ELSE IF TeamsLedBy(tms, assignedTeamLeadId) = {}
                 THEN fail(400)
                 ELSE create(assignedTeamLeadId,
                             OneOf(TeamsLedBy(tms, assignedTeamLeadId)))
            ELSE IF role = SALES_EXECUTIVE THEN create(Null, Null)
            ELSE create(caller, Null)
       ELSE IF TeamsLedBy(tms, caller) = {} THEN fail(400)
       ELSE create(caller, OneOf(TeamsLedBy(tms, caller)))

createUser(caller, role, assignedTeamLeadId) ==
    /\ AllIdle
    /\ ops < MaxOps
    /\ caller \in DOMAIN users
    /\ nextId.user <= MaxUsers
    /\ role = TEAM_LEAD => nextId.team <= MaxTeams
    /\ LET r == IF restrictTo({MANAGER, TEAM_LEAD}, users[caller].role)
                THEN CreateUserResult(users, teams, nextId, caller, role,
                                      assignedTeamLeadId)
                ELSE [status |-> 403, users |-> users, teams |-> teams,
                      nextId |-> nextId]
       IN /\ users' = r.users
          /\ teams' = r.teams
          /\ nextId' = r.nextId
          /\ resp' = [op |-> "createUser", status |-> r.status]
    /\ ops' = ops + 1
    /\ UNCHANGED <<data, reqs, edits, transfers>>

\* -------------------------------------------------------------- updateUser
\* A request body: the fields it carries (has) and their values; the values
\* of the profile fields are new ones.
Body(has, role, team, manager) ==
    [has |-> has, role |-> role, team |-> team, manager |-> manager,
     name |-> "edited", status |-> "inactive", refId |-> "edited",
     bankDetails |-> "edited"]

\* the bodies tried: any subset of the fields, an absent field carrying a
\* fixed value so that each request is listed once
Bodies ==
    UNION { { Body(has, r, t, m) :
                r \in IF "role" \in has THEN ROLES ELSE {SALES_EXECUTIVE},
                t \in IF "team" \in has THEN AllocTeams \cup {Null, ForeignTeam}
                                         ELSE {Null},
                m \in IF "manager" \in has THEN AllocUsers \cup {Null} ELSE {Null} } :
            has \in SUBSET {"role", "team", "manager"} }

filterObj_KeepsAll(b, allowedFields) == b

\* filterObj(req.body, ...allowedFields)
filterObj(b, allowedFields) == [b EXCEPT !.has = @ \cap allowedFields]

\* findByIdAndUpdate(userIdToUpdate, filteredBody)
ApplyBody(u, fb) ==
    [role |-> IF "role" \in fb.has THEN fb.role ELSE u.role,
     manager |-> IF "manager" \in fb.has THEN fb.manager ELSE u.manager,
     team |-> IF "team" \in fb.has THEN fb.team ELSE u.team,
     name |-> IF "name" \in fb.has THEN fb.name ELSE u.name,
     status |-> IF "status" \in fb.has THEN fb.status ELSE u.status,
     refId |-> IF "refId" \in fb.has THEN fb.refId ELSE u.refId,
     bankDetails |-> IF "bankDetails" \in fb.has THEN fb.bankDetails
                                                  ELSE u.bankDetails]

\* step 5 for a team lead whose team was set:
\* Team.findOneAndUpdate({teamLead}, {$set: {_id: team}}, {upsert: true}).
\* _id is immutable, and unique: the write throws unless it changes nothing
\* or inserts a document under an unused id.
SyncLeadTeam(us, tms, target, team) ==
    LET led == TeamsLedBy(tms, target)
    IN IF led # {}
       THEN IF OneOf(led) = team
            THEN [status |-> 200, users |-> us, teams |-> tms]
            ELSE [status |-> 500, users |-> us, teams |-> tms]
       ELSE IF team \in DOMAIN tms
            THEN [status |-> 500, users |-> us, teams |-> tms]
            ELSE [status |-> 200, users |-> us,
                  teams |-> Insert(tms, team, [teamLead |-> target])]

\* step 5 for an executive whose manager was set
SyncExecTeam(us, tms, target, manager) ==
    IF manager \in DOMAIN us /\ us[manager].role = TEAM_LEAD /\ us[manager].team # Null
    THEN [status |-> 200, users |-> SetUserTeam(us, target, us[manager].team),
          teams |-> tms]
    ELSE IF manager \in DOMAIN us /\ us[manager].role # TEAM_LEAD
    THEN [status |-> 200, users |-> SetUserTeam(us, target, Null), teams |-> tms]
    ELSE [status |-> 200, users |-> us, teams |-> tms]

UpdateUserResult(us, tms, caller, target, body) ==
    LET cr == us[caller].role
        fail(code) == [status |-> code, users |-> us, teams |-> tms]
        reportOfCaller ==
            /\ target \in DOMAIN us
            /\ us[target].role = SALES_EXECUTIVE
            /\ us[target].manager = caller
        allowedFields ==
            IF target = caller THEN {"name"}
            ELSE IF cr = MANAGER
            THEN {"name", "role", "refId", "status", "team", "manager", "bankDetails"}
            ELSE {"name", "status"}
        fb == filterObj(body, allowedFields)
        hasTeam == "team" \in fb.has /\ fb.team # Null
        hasManager == "manager" \in fb.has /\ fb.manager # Null
    IN IF "password" \in body.has THEN fail(400)
       ELSE IF target # caller /\ cr = TEAM_LEAD /\ ~reportOfCaller THEN fail(403)
       ELSE IF target # caller /\ cr \notin {MANAGER, TEAM_LEAD} THEN fail(403)
       ELSE IF target \notin DOMAIN us THEN fail(404)
       ELSE LET us1 == [us EXCEPT ![target] = ApplyBody(@, fb)]
                role1 == us1[target].role
            IN IF cr = MANAGER /\ (hasTeam \/ hasManager)
               THEN IF role1 = TEAM_LEAD /\ hasTeam
                    THEN SyncLeadTeam(us1, tms, target, fb.team)
                    ELSE IF role1 = SALES_EXECUTIVE /\ hasManager
                    THEN SyncExecTeam(us1, tms, target, fb.manager)
                    ELSE [status |-> 200, users |-> us1, teams |-> tms]
               ELSE [status |-> 200, users |-> us1, teams |-> tms]

\* a request that can change the ownership graph: a manager editing another
\* user's structural fields
Structural(caller, target, body) ==
    users[caller].role = MANAGER /\ target # caller /\ body.has # {}

updateUser(caller, target, body) ==
    /\ AllIdle
    /\ ops < MaxOps
    /\ caller \in DOMAIN users
    /\ Structural(caller, target, body) => edits < MaxEdits
    /\ LET r == UpdateUserResult(users, teams, caller, target, body)
       IN /\ users' = r.users
          /\ teams' = r.teams
          /\ resp' = [op |-> "updateUser", status |-> r.status]
    /\ edits' = IF Structural(caller, target, body) THEN edits + 1 ELSE edits
    /\ ops' = ops + 1
    /\ UNCHANGED <<data, nextId, reqs, transfers>>

\* -------------------------------------------------------------- deleteUser
\* DELETE /users/:id, restricted to manager by the route.  The handler's
\* writes are separate store operations, one per step.

\* Team.deleteOne({ teamLead })
DeleteTeamOfLead(tms, lead) ==
    IF TeamsLedBy(tms, lead) = {} THEN tms
    ELSE Remove(tms, OneOf(TeamsLedBy(tms, lead)))

\* User.updateMany({manager, role: sales_executive}, {$set: {manager: null, team: null}})
UnassignReports_ManagerOnly(us, lead) ==
    [u \in DOMAIN us |->
        IF us[u].manager = lead /\ us[u].role = SALES_EXECUTIVE
        THEN [us[u] EXCEPT !.manager = Null]
        ELSE us[u]]

UnassignReports(us, lead) ==
    [u \in DOMAIN us |->
        IF us[u].manager = lead /\ us[u].role = SALES_EXECUTIVE
        THEN [us[u] EXCEPT !.manager = Null, !.team = Null]
        ELSE us[u]]

\* The handler's update of the team leads of a deleted manager is never
\* reached: a manager target is refused before it.
\* the checks, and for a team lead the first write
deleteUserBegin(s, caller, target) ==
    /\ AllIdle
    /\ ops < MaxOps
    /\ caller \in DOMAIN users
    /\ IF ~restrictTo({MANAGER}, users[caller].role)
       THEN /\ resp' = [op |-> "deleteUser", status |-> 403]
            /\ UNCHANGED <<users, teams, reqs>>
       ELSE IF target = caller
       THEN /\ resp' = [op |-> "deleteUser", status |-> 403]
            /\ UNCHANGED <<users, teams, reqs>>
       ELSE IF target \notin DOMAIN users
       THEN /\ resp' = [op |-> "deleteUser", status |-> 404]
            /\ UNCHANGED <<users, teams, reqs>>
       ELSE IF users[target].role = MANAGER
       THEN /\ resp' = [op |-> "deleteUser", status |-> 403]
            /\ UNCHANGED <<users, teams, reqs>>
       ELSE IF users[target].role = TEAM_LEAD
       THEN /\ teams' = DeleteTeamOfLead(teams, target)
            /\ reqs' = [reqs EXCEPT ![s] =
                           [op |-> "deleteUser", pc |-> "unassign", target |-> target]]
            /\ UNCHANGED <<users, resp>>
       ELSE /\ reqs' = [reqs EXCEPT ![s] =
                           [op |-> "deleteUser", pc |-> "remove", target |-> target]]
            /\ UNCHANGED <<users, teams, resp>>
    /\ ops' = ops + 1
    /\ UNCHANGED <<data, nextId, edits, transfers>>

deleteUserUnassign(s) ==
    /\ reqs[s].op = "deleteUser"
    /\ reqs[s].pc = "unassign"
    /\ users' = UnassignReports(users, reqs[s].target)
    /\ reqs' = [reqs EXCEPT ![s].pc = "remove"]
    /\ UNCHANGED <<teams, data, nextId, resp, budget>>

deleteUserRemove(s) ==
    /\ reqs[s].op = "deleteUser"
    /\ reqs[s].pc = "remove"
    /\ users' = Remove(users, reqs[s].target)
    /\ reqs' = [reqs EXCEPT ![s] = Idle]
    /\ resp' = [op |-> "deleteUser", status |-> 204]
    /\ UNCHANGED <<teams, data, nextId, budget>>

\* -------------------------------------------------------------- createTeam
\* POST /teams, restricted to manager by the route.
CreateTeamResult(us, tms, ids, teamLeadId) ==
    IF ~(teamLeadId \in DOMAIN us /\ us[teamLeadId].role = TEAM_LEAD)
    THEN [status |-> 400, users |-> us, teams |-> tms, nextId |-> ids]
    ELSE IF TeamsLedBy(tms, teamLeadId) # {}
    THEN [status |-> 400, users |-> us, teams |-> tms, nextId |-> ids]
    ELSE [status |-> 201,
          users |-> SetUserTeam(us, teamLeadId, ids.team),
          teams |-> Insert(tms, ids.team, [teamLead |-> teamLeadId]),
          nextId |-> [ids EXCEPT !.team = @ + 1]]

createTeam(caller, teamLeadId) ==
    /\ AllIdle
    /\ ops < MaxOps
    /\ caller \in DOMAIN users
    /\ nextId.team <= MaxTeams
    /\ LET r == IF restrictTo({MANAGER}, users[caller].role)
                THEN CreateTeamResult(users, teams, nextId, teamLeadId)
                ELSE [status |-> 403, users |-> users, teams |-> teams,
                      nextId |-> nextId]
       IN /\ users' = r.users
          /\ teams' = r.teams
          /\ nextId' = r.nextId
          /\ resp' = [op |-> "createTeam", status |-> r.status]
    /\ ops' = ops + 1
    /\ UNCHANGED <<data, reqs, edits, transfers>>

\* -------------------------------------------------------------- updateTeam
\* PATCH /teams/:id, restricted to manager by the route.

\* User.updateMany({_id in addMembers, role: sales_executive},
\*                 {$set: {team, manager: team.teamLead}})
AddMembers(us, addMembers, teamId, lead) ==
    [u \in DOMAIN us |->
        IF u \in addMembers /\ us[u].role = SALES_EXECUTIVE
        THEN [us[u] EXCEPT !.team = teamId, !.manager = lead]
        ELSE us[u]]

\* User.updateMany({_id in removeMembers, role: sales_executive, team: teamId},
\*                 {$unset: {team, manager}})
RemoveMembers(us, removeMembers, teamId) ==
    [u \in DOMAIN us |->
        IF u \in removeMembers /\ us[u].role = SALES_EXECUTIVE /\ us[u].team = teamId
        THEN [us[u] EXCEPT !.team = Null, !.manager = Null]
        ELSE us[u]]

UpdateTeamResult(us, tms, teamId, teamLeadId, addMembers, removeMembers) ==
    IF teamId \notin DOMAIN tms
    THEN [status |-> 404, users |-> us, teams |-> tms]
    ELSE
    LET team == tms[teamId]
        reassign == teamLeadId # Null /\ teamLeadId # team.teamLead
        validLead == teamLeadId \in DOMAIN us /\ us[teamLeadId].role = TEAM_LEAD
        otherTeam == TeamsLedBy(tms, teamLeadId) \ {teamId} # {}
        \* unassign the old lead, assign the new one
        us1 == IF reassign
               THEN SetUserTeam(SetUserTeam(us, team.teamLead, Null), teamLeadId, teamId)
               ELSE us
        executivesToAdd == {u \in addMembers \cap DOMAIN us1 :
                               us1[u].role = SALES_EXECUTIVE}
        us2 == IF addMembers # {}
               THEN AddMembers(us1, addMembers, teamId, team.teamLead)
               ELSE us1
        us3 == IF removeMembers # {}
               THEN RemoveMembers(us2, removeMembers, teamId)
               ELSE us2
        tms1 == IF reassign THEN [tms EXCEPT ![teamId].teamLead = teamLeadId] ELSE tms
    IN IF reassign /\ ~validLead
       THEN [status |-> 400, users |-> us, teams |-> tms]
       ELSE IF reassign /\ otherTeam
       THEN [status |-> 400, users |-> us, teams |-> tms]
       ELSE IF addMembers # {} /\ Cardinality(executivesToAdd) # Cardinality(addMembers)
       THEN [status |-> 400, users |-> us1, teams |-> tms]
       ELSE [status |-> 200, users |-> us3, teams |-> tms1]

\* the member lists a request carries: at most two ids, and one list at a time
MemberSets == {S \in SUBSET (AllocUsers \cup {ForeignUser}) : Cardinality(S) <= 2}

updateTeam(caller, teamId, teamLeadId, addMembers, removeMembers) ==
    /\ AllIdle
    /\ ops < MaxOps
    /\ caller \in DOMAIN users
    /\ addMembers = {} \/ removeMembers = {}
    /\ LET r == IF restrictTo({MANAGER}, users[caller].role)
                THEN UpdateTeamResult(users, teams, teamId, teamLeadId,
                                      addMembers, removeMembers)
                ELSE [status |-> 403, users |-> users, teams |-> teams]
       IN /\ users' = r.users
          /\ teams' = r.teams
          /\ resp' = [op |-> "updateTeam", status |-> r.status]
    /\ ops' = ops + 1
    /\ UNCHANGED <<data, nextId, reqs, edits, transfers>>

\* -------------------------------------------------------------- deleteTeam
\* DELETE /teams/:id, restricted to manager by the route; one write per step.

\* User.updateMany({team: teamId, role: sales_executive}, {$unset: {team, manager}})
UnassignMembers(us, teamId) ==
    [u \in DOMAIN us |->
        IF us[u].team = teamId /\ us[u].role = SALES_EXECUTIVE
        THEN [us[u] EXCEPT !.team = Null, !.manager = Null]
        ELSE us[u]]

deleteTeamBegin(s, caller, teamId) ==
    /\ AllIdle
    /\ ops < MaxOps
    /\ caller \in DOMAIN users
    /\ IF ~restrictTo({MANAGER}, users[caller].role)
       THEN /\ resp' = [op |-> "deleteTeam", status |-> 403]
            /\ UNCHANGED <<users, reqs>>
       ELSE IF teamId \notin DOMAIN teams
       THEN /\ resp' = [op |-> "deleteTeam", status |-> 404]
            /\ UNCHANGED <<users, reqs>>
       ELSE /\ users' = SetUserTeam(users, teams[teamId].teamLead, Null)
            /\ reqs' = [reqs EXCEPT ![s] =
                           [op |-> "deleteTeam", pc |-> "unassign", target |-> teamId]]
            /\ UNCHANGED resp
    /\ ops' = ops + 1
    /\ UNCHANGED <<teams, data, nextId, edits, transfers>>

deleteTeamUnassign(s) ==
    /\ reqs[s].op = "deleteTeam"
    /\ reqs[s].pc = "unassign"
    /\ users' = UnassignMembers(users, reqs[s].target)
    /\ reqs' = [reqs EXCEPT ![s].pc = "remove"]
    /\ UNCHANGED <<teams, data, nextId, resp, budget>>

deleteTeamRemove(s) ==
    /\ reqs[s].op = "deleteTeam"
    /\ reqs[s].pc = "remove"
    /\ teams' = Remove(teams, reqs[s].target)
    /\ reqs' = [reqs EXCEPT ![s] = Idle]
    /\ resp' = [op |-> "deleteTeam", status |-> 204]
    /\ UNCHANGED <<users, data, nextId, budget>>

\* ============================================================ owned records
AllocProspects == 1..(nextId.prospect - 1)
AllocSales == 1..(nextId.sale - 1)
AllocCallLogs == 1..(nextId.callLog - 1)

TouchProspect_ActivityOnly(ps, id, activity) ==
    IF id \in DOMAIN ps THEN [ps EXCEPT ![id].activity = activity] ELSE ps

\* Prospect.findByIdAndUpdate(id, fields): no document, no write
TouchProspect(ps, id, activity) ==
    IF id \in DOMAIN ps
    THEN [ps EXCEPT ![id].activity = activity, ![id].isUntouched = FALSE]
    ELSE ps

\* the owner and team lead that createProspect and createSale derive from the
\* caller and assignedToExecutiveEmail (an email names at most one user: the
\* unique index on User.email); execError is the status when an executive
\* caller has no manager
ResolveOwner(us, caller, assigned) ==
    LET cr == us[caller].role
    IN IF cr = SALES_EXECUTIVE
       THEN IF us[caller].manager = Null
            THEN [status |-> 500]
            ELSE [status |-> 201, salesExecutive |-> caller,
                  teamLead |-> us[caller].manager]
       ELSE IF cr = TEAM_LEAD
       THEN IF assigned # Null
            THEN IF ~(/\ assigned \in DOMAIN us
                      /\ us[assigned].role = SALES_EXECUTIVE
                      /\ us[assigned].manager = caller)
                 THEN [status |-> 400]
                 ELSE [status |-> 201, salesExecutive |-> assigned,
                       teamLead |-> caller]
            ELSE [status |-> 201, salesExecutive |-> caller, teamLead |-> caller]
       ELSE IF assigned = Null THEN [status |-> 400]
       ELSE IF ~(assigned \in DOMAIN us /\ us[assigned].role = SALES_EXECUTIVE)
       THEN [status |-> 400]
       ELSE IF us[assigned].manager = Null THEN [status |-> 400]
       ELSE [status |-> 201, salesExecutive |-> assigned,
             teamLead |-> us[assigned].manager]

\* ----------------------------------------------------------- createProspect
\* POST /prospects, restricted to manager and team_lead by the route.
\* complete: the body carries companyName and clientName.
CreateProspectResult(us, ps, ids, caller, complete, assigned, prospectId) ==
    LET o == ResolveOwner(us, caller, assigned)
        fail(code) == [status |-> code, prospects |-> ps, nextId |-> ids]
    IN IF ~complete THEN fail(400)
       ELSE IF o.status # 201 THEN fail(o.status)
       ELSE LET ps1 == Insert(ps, ids.prospect,
                              [salesExecutive |-> o.salesExecutive,
                               teamLead |-> o.teamLead,
                               activity |-> "New",
                               isUntouched |-> TRUE])
            IN [status |-> 201,
                prospects |-> IF prospectId # Null
                              THEN TouchProspect(ps1, prospectId, "Converted")
                              ELSE ps1,
                nextId |-> [ids EXCEPT !.prospect = @ + 1]]

createProspect(caller, complete, assigned, prospectId) ==
    /\ AllIdle
    /\ caller \in DOMAIN users
    /\ nextId.prospect <= MaxProspects
    /\ LET r == IF restrictTo({MANAGER, TEAM_LEAD}, users[caller].role)
                THEN CreateProspectResult(users, prospects, nextId, caller,
                                          complete, assigned, prospectId)
                ELSE [status |-> 403, prospects |-> prospects, nextId |-> nextId]
       IN /\ prospects' = r.prospects
          /\ nextId' = r.nextId
          /\ resp' = [op |-> "createProspect", status |-> r.status]
    /\ UNCHANGED <<org, sales, callLogs, transferLogs, reqs, budget>>

\* --------------------------------------------------------------- createSale
\* POST /sales, open to the three roles.  The handler creates the Sale and
\* then, for a prospectId, updates the Prospect: two store round trips, one
\* step each.
\* complete: the body carries companyName and clientName; amount 0 is an
\* absent amount.
CreateSaleResult(us, ss, ids, caller, complete, assigned, prospectId, amount) ==
    LET o == ResolveOwner(us, caller, assigned)
        fail(code) == [status |-> code, sales |-> ss, nextId |-> ids]
    IN IF ~complete \/ amount = 0 THEN fail(400)
       ELSE IF o.status # 201 THEN fail(o.status)
       ELSE [status |-> 201,
             sales |-> Insert(ss, ids.sale,
                              [salesExecutive |-> o.salesExecutive,
                               teamLead |-> o.teamLead,
                               prospect |-> prospectId,
                               amount |-> amount,
                               isTransferredToFinance |-> FALSE]),
             nextId |-> [ids EXCEPT !.sale = @ + 1]]

\* the checks and Sales.create; without a prospectId the response follows
createSale(s, caller, complete, assigned, prospectId, amount) ==
    /\ reqs[s] = Idle
    /\ caller \in DOMAIN users
    /\ nextId.sale <= MaxSales
    /\ LET r == IF restrictTo(ROLES, users[caller].role)
                THEN CreateSaleResult(users, sales, nextId, caller,
                                      complete, assigned, prospectId, amount)
                ELSE [status |-> 403, sales |-> sales, nextId |-> nextId]
       IN /\ sales' = r.sales
          /\ nextId' = r.nextId
          /\ IF r.status = 201 /\ prospectId # Null
             THEN /\ reqs' = [reqs EXCEPT ![s] =
                                 [op |-> "createSale", pc |-> "convert",
                                  caller |-> caller,
                                  sale |-> nextId.sale, prospectId |-> prospectId]]
                  /\ UNCHANGED resp
             ELSE /\ resp' = [op |-> "createSale", status |-> r.status]
                  /\ UNCHANGED reqs
    /\ UNCHANGED <<org, prospects, callLogs, transferLogs, budget>>

\* Prospect.findByIdAndUpdate(prospectId, {activity: 'Converted', ...}), 201
createSaleConvert(s) ==
    /\ reqs[s].op = "createSale"
    /\ reqs[s].pc = "convert"
    /\ prospects' = TouchProspect(prospects, reqs[s].prospectId, "Converted")
    /\ reqs' = [reqs EXCEPT ![s] = Idle]
    /\ resp' = [op |-> "createSale", status |-> 201]
    /\ UNCHANGED <<org, sales, callLogs, transferLogs, nextId, budget>>

\* ------------------------------------------------------------ createCallLog
\* POST /calllogs, open to the three roles; the handler refuses all but
\* executives.  complete: the body carries companyName, clientName, activity.
CreateCallLogResult(us, ps, cs, ids, caller, complete, activity, prospectId) ==
    IF ~complete
    THEN [status |-> 400, prospects |-> ps, callLogs |-> cs, nextId |-> ids]
    ELSE IF us[caller].role # SALES_EXECUTIVE
    THEN [status |-> 403, prospects |-> ps, callLogs |-> cs, nextId |-> ids]
    ELSE [status |-> 201,
          callLogs |-> Insert(cs, ids.callLog,
                              [salesExecutive |-> caller,
                               prospect |-> prospectId,
                               activity |-> activity]),
          prospects |-> IF prospectId # Null
                        THEN TouchProspect(ps, prospectId, activity)
                        ELSE ps,
          nextId |-> [ids EXCEPT !.callLog = @ + 1]]

createCallLog(caller, complete, activity, prospectId) ==
    /\ AllIdle
    /\ caller \in DOMAIN users
    /\ nextId.callLog <= MaxCallLogs
    /\ LET r == IF restrictTo(ROLES, users[caller].role)
                THEN CreateCallLogResult(users, prospects, callLogs, nextId,
                                         caller, complete, activity, prospectId)
                ELSE [status |-> 403, prospects |-> prospects,
                      callLogs |-> callLogs, nextId |-> nextId]
       IN /\ prospects' = r.prospects
          /\ callLogs' = r.callLogs
          /\ nextId' = r.nextId
          /\ resp' = [op |-> "createCallLog", status |-> r.status]
    /\ UNCHANGED <<org, sales, transferLogs, reqs, budget>>

\* ------------------------------------------------------------- scoped reads
\* User.find({manager: lead, role: sales_executive}).select('_id')
TeamMemberIds(us, lead) ==
    {u \in DOMAIN us : us[u].manager = lead /\ us[u].role = SALES_EXECUTIVE}

ExecutiveBelongsToTL_AnyManaged(us, owner, lead) ==
    owner \in DOMAIN us /\ us[owner].manager # Null

\* User.exists({_id: owner, manager: lead})
ExecutiveBelongsToTL(us, owner, lead) ==
    owner \in DOMAIN us /\ us[owner].manager = lead

\* filter.salesExecutive as the role sets it: any is no condition on the owner
RoleFilter(us, caller) ==
    IF us[caller].role = SALES_EXECUTIVE
    THEN [any |-> FALSE, owners |-> {caller}]
    ELSE IF us[caller].role = TEAM_LEAD
    THEN [any |-> FALSE, owners |-> TeamMemberIds(us, caller)]
    ELSE [any |-> TRUE, owners |-> {}]

\* filter.salesExecutive = id
OnlyOwner(id) == [any |-> FALSE, owners |-> {id}]

\* Model.find(filter): the ids of the documents returned.  A date, month or
\* name condition keeps the documents of window.
Find(coll, f, anyLead, lead, dated, window) ==
    {x \in DOMAIN coll :
        /\ f.any \/ coll[x].salesExecutive \in f.owners
        /\ anyLead \/ coll[x].teamLead = lead
        /\ dated => x \in window}

\* a query: the parameters of the three list routes an absent one being Null,
\* and the date, month or name condition as the set of ids it keeps
Query(memberId, executiveId, teamLeadId, dated, window) ==
    [memberId |-> memberId, executiveId |-> executiveId,
     teamLeadId |-> teamLeadId, dated |-> dated, window |-> window]

Narrowed(q) ==
    q.memberId # Null \/ q.executiveId # Null \/ q.teamLeadId # Null \/ q.dated

\* GET /prospects
GetAllProspectsResult(us, ps, caller, q) ==
    LET cr == us[caller].role
        f0 == RoleFilter(us, caller)
    IN IF q.memberId # Null /\ cr = TEAM_LEAD /\ q.memberId \notin TeamMemberIds(us, caller)
       THEN [status |-> 403, ids |-> {}]
       ELSE IF q.memberId # Null /\ cr = SALES_EXECUTIVE
       THEN [status |-> 403, ids |-> {}]
       ELSE LET f == IF q.memberId # Null THEN OnlyOwner(q.memberId) ELSE f0
            IN [status |-> 200,
                ids |-> Find(ps, f, TRUE, Null, q.dated, q.window)]

\* GET /prospects/untouched, restricted to manager and team_lead by the route
GetUntouchedProspectsResult(us, ps, caller, q) ==
    LET cr == us[caller].role
        untouched == [x \in {y \in DOMAIN ps : ps[y].isUntouched} |-> ps[x]]
    IN IF q.memberId # Null /\ cr = TEAM_LEAD /\ q.memberId \notin TeamMemberIds(us, caller)
       THEN [status |-> 403, ids |-> {}]
       ELSE IF q.memberId # Null /\ cr = SALES_EXECUTIVE
       THEN [status |-> 403, ids |-> {}]
       ELSE IF cr = SALES_EXECUTIVE
       THEN [status |-> 403, ids |-> {}]
       ELSE LET f == IF cr = TEAM_LEAD THEN RoleFilter(us, caller)
                     ELSE IF q.memberId # Null THEN OnlyOwner(q.memberId)
                     ELSE RoleFilter(us, caller)
            IN [status |-> 200,
                ids |-> Find(untouched, f, TRUE, Null, q.dated, q.window)]

\* GET /sales
GetAllSalesResult(us, ss, caller, q) ==
    LET cr == us[caller].role
        f0 == RoleFilter(us, caller)
    IN IF q.teamLeadId # Null /\ cr # MANAGER
       THEN [status |-> 403, ids |-> {}]
       ELSE IF /\ q.executiveId # Null
               /\ cr = TEAM_LEAD
               /\ q.executiveId \notin TeamMemberIds(us, caller)
       THEN [status |-> 403, ids |-> {}]
       ELSE LET f == IF q.executiveId # Null THEN OnlyOwner(q.executiveId) ELSE f0
            IN [status |-> 200,
                ids |-> Find(ss, f, q.teamLeadId = Null, q.teamLeadId,
                             q.dated, q.window)]

\* GET /calllogs (a call log carries no team lead)
GetAllCallLogsResult(us, cs, caller, q) ==
    LET cr == us[caller].role
        f0 == RoleFilter(us, caller)
    IN IF /\ q.executiveId # Null
          /\ cr = TEAM_LEAD
          /\ q.executiveId \notin TeamMemberIds(us, caller)
       THEN [status |-> 403, ids |-> {}]
       ELSE LET f == IF q.executiveId # Null THEN OnlyOwner(q.executiveId) ELSE f0
            IN [status |-> 200,
                ids |-> {x \in DOMAIN cs :
                            /\ f.any \/ cs[x].salesExecutive \in f.owners
                            /\ q.dated => x \in q.window}]

ListResp(op, caller, q, r) ==
    [op |-> op, status |-> r.status, caller |-> caller,
     narrowed |-> Narrowed(q), ids |-> r.ids]

getAllProspects(caller, q) ==
    /\ AllIdle
    /\ caller \in DOMAIN users
    /\ resp' = ListResp("getAllProspects", caller, q,
                        GetAllProspectsResult(users, prospects, caller, q))
    /\ UNCHANGED <<org, data, nextId, reqs, budget>>

getUntouchedProspects(caller, q) ==
    /\ AllIdle
    /\ caller \in DOMAIN users
    /\ resp' = ListResp("getUntouchedProspects", caller, q,
                        IF restrictTo({MANAGER, TEAM_LEAD}, users[caller].role)
                        THEN GetUntouchedProspectsResult(users, prospects, caller, q)
                        ELSE [status |-> 403, ids |-> {}])
    /\ UNCHANGED <<org, data, nextId, reqs, budget>>

getAllSales(caller, q) ==
    /\ AllIdle
    /\ caller \in DOMAIN users
    /\ resp' = ListResp("getAllSales", caller, q,
                        GetAllSalesResult(users, sales, caller, q))
    /\ UNCHANGED <<org, data, nextId, reqs, budget>>

getAllCallLogs(caller, q) ==
    /\ AllIdle
    /\ caller \in DOMAIN users
    /\ resp' = ListResp("getAllCallLogs", caller, q,
                        GetAllCallLogsResult(users, callLogs, caller, q))
    /\ UNCHANGED <<org, data, nextId, reqs, budget>>

\* ----------------------------------------------------- single-record access
\* GET /prospects/:id and GET /calllogs/:id: the document is read with
\* salesExecutive populated, so an executive's comparison of
\* salesExecutive.toString() with its own id is of a document's text and
\* never equal, and a missing owner populates to null, which throws
GetPopulatedStatus(us, coll, caller, id) ==
    IF id \notin DOMAIN coll THEN 404
    ELSE LET owner == coll[id].salesExecutive
             cr == us[caller].role
         IN IF cr = MANAGER THEN 200
            ELSE IF owner \notin DOMAIN us THEN 500
            ELSE IF cr = SALES_EXECUTIVE THEN 403
            ELSE IF ~ExecutiveBelongsToTL(us, owner, caller) THEN 403
            ELSE 200

\* the authorization of updateProspect and updateCallLog, on the plain document
AuthorizedToUpdate(us, coll, caller, id) ==
    LET owner == coll[id].salesExecutive
        cr == us[caller].role
    IN \/ cr = SALES_EXECUTIVE /\ owner = caller
       \/ cr = TEAM_LEAD /\ ExecutiveBelongsToTL(us, owner, caller)
       \/ cr = MANAGER

getProspect(caller, id) ==
    /\ AllIdle
    /\ caller \in DOMAIN users
    /\ resp' = [op |-> "getProspect", caller |-> caller, id |-> id,
                status |-> GetPopulatedStatus(users, prospects, caller, id)]
    /\ UNCHANGED <<org, data, nextId, reqs, budget>>

getCallLog(caller, id) ==
    /\ AllIdle
    /\ caller \in DOMAIN users
    /\ resp' = [op |-> "getCallLog", caller |-> caller, id |-> id,
                status |-> GetPopulatedStatus(users, callLogs, caller, id)]
    /\ UNCHANGED <<org, data, nextId, reqs, budget>>

\* GET /users/:id, open to every authenticated caller
GetUserStatus(us, caller, id) ==
    LET cr == us[caller].role
    IN IF id = caller \/ cr = MANAGER
       THEN IF id \in DOMAIN us THEN 200 ELSE 404
       ELSE IF cr = TEAM_LEAD
       THEN IF \/ id \notin DOMAIN us
               \/ us[id].role # SALES_EXECUTIVE
               \/ us[id].manager # caller
            THEN 403
            ELSE 200
       ELSE 403

\* A read is one findById: it runs between the writes of any request in
\* flight.  The response carries the document found (data.user), here a
\* sequence of one document, empty when the request is refused.
getUser(caller, id) ==
    /\ caller \in DOMAIN users
    /\ LET status == GetUserStatus(users, caller, id)
       IN resp' = [op |-> "getUser", caller |-> caller, id |-> id,
                   status |-> status,
                   user |-> IF status = 200 THEN <<users[id]>> ELSE <<>>]
    /\ UNCHANGED <<org, data, nextId, reqs, budget>>

\* GET /sales/:id: salesExecutive and teamLead are populated, so neither
\* toString() comparison is ever an equality, and a missing user populates
\* to null, which throws
GetSaleStatus(us, ss, caller, id) ==
    IF id \notin DOMAIN ss THEN 404
    ELSE LET owner == ss[id].salesExecutive
             cr == us[caller].role
         IN IF cr = MANAGER THEN 200
            ELSE IF cr = SALES_EXECUTIVE
            THEN IF owner \notin DOMAIN us THEN 500 ELSE 403
            ELSE IF ss[id].teamLead \notin DOMAIN us \/ owner \notin DOMAIN us
            THEN 500
            ELSE IF ~ExecutiveBelongsToTL(us, owner, caller) THEN 403
            ELSE 200

getSale(caller, id) ==
    /\ AllIdle
    /\ caller \in DOMAIN users
    /\ resp' = [op |-> "getSale", caller |-> caller, id |-> id,
                status |-> GetSaleStatus(users, sales, caller, id)]
    /\ UNCHANGED <<org, data, nextId, reqs, budget>>

\* a body of PATCH /prospects/:id: the fields of it that the handler keeps
ProspectBody(has, activity, isUntouched) ==
    [has |-> has, activity |-> activity, isUntouched |-> isUntouched]

UpdateProspectResult(us, ps, caller, id, body) ==
    IF id \notin DOMAIN ps THEN [status |-> 404, prospects |-> ps]
    ELSE IF ~AuthorizedToUpdate(us, ps, caller, id)
    THEN [status |-> 403, prospects |-> ps]
    ELSE [status |-> 200,
          prospects |->
              [ps EXCEPT ![id].activity =
                             IF "activity" \in body.has THEN body.activity ELSE @,
                         ![id].isUntouched =
                             IF "isUntouched" \in body.has THEN body.isUntouched ELSE @]]

updateProspect(caller, id, body) ==
    /\ caller \in DOMAIN users
    /\ LET r == UpdateProspectResult(users, prospects, caller, id, body)
       IN /\ prospects' = r.prospects
          /\ resp' = [op |-> "updateProspect", caller |-> caller, id |-> id,
                      status |-> r.status]
    /\ UNCHANGED <<org, sales, callLogs, transferLogs, nextId, reqs, budget>>

\* a body of PATCH /calllogs/:id: the fields of it that the handler keeps
CallLogBody(has, activity) == [has |-> has, activity |-> activity]

UpdateCallLogResult(us, ps, cs, caller, id, body) ==
    IF id \notin DOMAIN cs
    THEN [status |-> 404, prospects |-> ps, callLogs |-> cs]
    ELSE IF ~AuthorizedToUpdate(us, cs, caller, id)
    THEN [status |-> 403, prospects |-> ps, callLogs |-> cs]
    ELSE LET cs1 == IF "activity" \in body.has
                    THEN [cs EXCEPT ![id].activity = body.activity]
                    ELSE cs
         IN [status |-> 200,
             callLogs |-> cs1,
             prospects |->
                 IF /\ cs1[id].prospect # Null
                    /\ cs1[id].activity = "Delete Client's Profile"
                 THEN TouchProspect(ps, cs1[id].prospect, "Deleted")
                 ELSE ps]

updateCallLog(caller, id, body) ==
    /\ AllIdle
    /\ caller \in DOMAIN users
    /\ LET r == UpdateCallLogResult(users, prospects, callLogs, caller, id, body)
       IN /\ prospects' = r.prospects
          /\ callLogs' = r.callLogs
          /\ resp' = [op |-> "updateCallLog", caller |-> caller, id |-> id,
                      status |-> r.status]
    /\ UNCHANGED <<org, sales, transferLogs, nextId, reqs, budget>>

\* ------------------------------------------------------ transferInternalData
\* POST /transfer/internal, restricted to manager and team_lead by the route.
\* The handler reads the two users, then issues one updateMany, then creates
\* the log: three store round trips, one step each.
DataTypes == {"prospects", "sales"}

\* the request as the handler destructures it
TransferCall(caller, sourceUserId, targetUserId, dataIds, dataType) ==
    [caller |-> caller, sourceUserId |-> sourceUserId,
     targetUserId |-> targetUserId, dataIds |-> dataIds, dataType |-> dataType]

\* x.manager.toString() !== caller, where a null manager throws
NotManagedBy(us, x, caller) ==
    IF us[x].manager = Null THEN "throws"
    ELSE IF us[x].manager # caller THEN "differs" ELSE "same"

\* 2. Authorization Check: the status it ends the request with, 0 to go on
TransferAuth(us, c) ==
    LET caller == c.caller
        src == c.sourceUserId
        tgt == c.targetUserId
        cr == us[caller].role
    IN IF cr = TEAM_LEAD
       THEN IF src # caller /\ NotManagedBy(us, src, caller) = "throws" THEN 500
            ELSE IF src # caller /\ NotManagedBy(us, src, caller) = "differs" THEN 403
            ELSE IF tgt # caller /\ NotManagedBy(us, tgt, caller) = "throws" THEN 500
            ELSE IF tgt # caller /\ NotManagedBy(us, tgt, caller) = "differs" THEN 403
            ELSE IF /\ us[src].role = SALES_EXECUTIVE
                    /\ us[tgt].role = SALES_EXECUTIVE
                    /\ NotManagedBy(us, src, caller) = "throws"
            THEN 500
            ELSE IF /\ us[src].role = SALES_EXECUTIVE
                    /\ us[tgt].role = SALES_EXECUTIVE
                    /\ (\/ NotManagedBy(us, src, caller) = "differs"
                        \/ NotManagedBy(us, tgt, caller) = "throws")
            THEN IF NotManagedBy(us, src, caller) = "differs" THEN 403 ELSE 500
            ELSE IF /\ us[src].role = SALES_EXECUTIVE
                    /\ us[tgt].role = SALES_EXECUTIVE
                    /\ NotManagedBy(us, tgt, caller) = "differs"
            THEN 403
            ELSE IF /\ us[src].role = TEAM_LEAD
                    /\ us[tgt].role = SALES_EXECUTIVE
                    /\ NotManagedBy(us, tgt, caller) = "throws"
            THEN 500
            ELSE IF /\ us[src].role = TEAM_LEAD
                    /\ us[tgt].role = SALES_EXECUTIVE
                    /\ NotManagedBy(us, tgt, caller) = "differs"
            THEN 403
            ELSE 0
       ELSE IF cr = MANAGER THEN 0
       ELSE 403

\* the checks before the first write: the status they end the request with,
\* 0 when the request goes on to the update
TransferChecks(us, c) ==
    IF \/ c.sourceUserId = Null \/ c.targetUserId = Null
       \/ c.dataIds = {} \/ c.dataType = ""
    THEN 400
    ELSE IF c.dataType \notin DataTypes THEN 400
    ELSE IF c.sourceUserId \notin DOMAIN us \/ c.targetUserId \notin DOMAIN us
    THEN 404
    ELSE IF \/ us[c.sourceUserId].role \notin {SALES_EXECUTIVE, TEAM_LEAD}
            \/ us[c.targetUserId].role \notin {SALES_EXECUTIVE, TEAM_LEAD}
    THEN 400
    ELSE TransferAuth(us, c)

TransferTeamLead_AlwaysManager(targetUser) == targetUser.manager

\* updateQuery.$set.teamLead, from the target user as read
TransferTeamLead(targetUser) ==
    IF targetUser.role = TEAM_LEAD THEN targetUser.id ELSE targetUser.manager

TransferUpdate_IgnoreIds(coll, dataIds, source, target, teamLead) ==
    [x \in DOMAIN coll |->
        IF coll[x].salesExecutive = source
        THEN [coll[x] EXCEPT !.salesExecutive = target, !.teamLead = teamLead]
        ELSE coll[x]]

TransferUpdate_NoOwnerFilter(coll, dataIds, source, target, teamLead) ==
    [x \in DOMAIN coll |->
        IF x \in dataIds
        THEN [coll[x] EXCEPT !.salesExecutive = target, !.teamLead = teamLead]
        ELSE coll[x]]

\* Model.updateMany({_id: {$in: dataIds}, salesExecutive: source},
\*                  {$set: {salesExecutive, teamLead}})
TransferUpdate(coll, dataIds, source, target, teamLead) ==
    [x \in DOMAIN coll |->
        IF x \in dataIds /\ coll[x].salesExecutive = source
        THEN [coll[x] EXCEPT !.salesExecutive = target, !.teamLead = teamLead]
        ELSE coll[x]]

ModifiedCount_AllDocuments(before, after) == Cardinality(DOMAIN before)

\* result.modifiedCount: the documents the update changed
ModifiedCount(before, after) ==
    Cardinality({x \in DOMAIN before : after[x] # before[x]})

transferBegin(s, c) ==
    /\ reqs[s] = Idle
    /\ transfers < MaxTransfers
    /\ c.caller \in DOMAIN users
    /\ LET code == IF restrictTo({MANAGER, TEAM_LEAD}, users[c.caller].role)
                   THEN TransferChecks(users, c)
                   ELSE 403
       IN IF code # 0
          THEN /\ resp' = [op |-> "transfer", status |-> code, count |-> 0]
               /\ UNCHANGED <<reqs, transfers>>
          ELSE /\ reqs' = [reqs EXCEPT ![s] =
                              [op |-> "transfer", pc |-> "update", call |-> c,
                               targetUser |-> [id |-> c.targetUserId,
                                               role |-> users[c.targetUserId].role,
                                               manager |-> users[c.targetUserId].manager],
                               count |-> 0]]
               /\ transfers' = transfers + 1
               /\ UNCHANGED resp
    /\ UNCHANGED <<org, data, nextId, ops, edits>>

transferUpdate(s) ==
    /\ reqs[s].op = "transfer"
    /\ reqs[s].pc = "update"
    /\ LET c == reqs[s].call
           tl == TransferTeamLead(reqs[s].targetUser)
           ps1 == IF c.dataType = "prospects"
                  THEN TransferUpdate(prospects, c.dataIds, c.sourceUserId,
                                      c.targetUserId, tl)
                  ELSE prospects
           ss1 == IF c.dataType = "sales"
                  THEN TransferUpdate(sales, c.dataIds, c.sourceUserId,
                                      c.targetUserId, tl)
                  ELSE sales
           updatedCount == ModifiedCount(prospects, ps1) + ModifiedCount(sales, ss1)
       IN /\ prospects' = ps1
          /\ sales' = ss1
          /\ IF updatedCount = 0
             THEN /\ reqs' = [reqs EXCEPT ![s] = Idle]
                  /\ resp' = [op |-> "transfer", status |-> 404, call |-> c,
                              count |-> 0]
             ELSE /\ reqs' = [reqs EXCEPT ![s].pc = "log", ![s].count = updatedCount]
                  /\ UNCHANGED resp
    /\ UNCHANGED <<org, callLogs, transferLogs, nextId, budget>>

InternalTransferLog_CountRequested(c, updatedCount) ==
    [transferType |-> "internal_data_transfer",
     transferredBy |-> c.caller,
     transferredFrom |-> c.sourceUserId,
     transferredTo |-> c.targetUserId,
     dataCount |-> Cardinality(c.dataIds),
     dataIds |-> c.dataIds]

\* 4. Log the transfer: the document given to TransferLog.create
InternalTransferLog(c, updatedCount) ==
    [transferType |-> "internal_data_transfer",
     transferredBy |-> c.caller,
     transferredFrom |-> c.sourceUserId,
     transferredTo |-> c.targetUserId,
     dataCount |-> updatedCount,
     dataIds |-> c.dataIds]

transferLog(s) ==
    /\ reqs[s].op = "transfer"
    /\ reqs[s].pc = "log"
    /\ LET c == reqs[s].call
       IN /\ transferLogs' = Append(transferLogs, InternalTransferLog(c, reqs[s].count))
          /\ resp' = [op |-> "transfer", status |-> 200, call |-> c,
                      count |-> reqs[s].count]
    /\ reqs' = [reqs EXCEPT ![s] = Idle]
    /\ UNCHANGED <<org, prospects, sales, callLogs, nextId, budget>>

\* --------------------------------------------------------- transferToFinance
\* POST /transfer/finance, restricted to manager by the route.  The handler
\* issues one updateMany, reads the sales back and creates the log: one step
\* for the checks, one for the update, one for the read and the log.

\* Sales.updateMany({_id: {$in: salesIds}, isTransferredToFinance: {$ne: true}},
\*                  {$set: {isTransferredToFinance: true, ...}})
FlagForFinance(ss, salesIds) ==
    [x \in DOMAIN ss |->
        IF x \in salesIds /\ ~ss[x].isTransferredToFinance
        THEN [ss[x] EXCEPT !.isTransferredToFinance = TRUE]
        ELSE ss[x]]

RECURSIVE SumAmounts(_, _)
\* reduce((sum, sale) => sum + sale.amount, 0) over the sales of ids
SumAmounts(ss, ids) ==
    IF ids = {} THEN 0
    ELSE LET x == CHOOSE y \in ids : TRUE
         IN ss[x].amount + SumAmounts(ss, ids \ {x})

\* totalAmount: over Sales.find({_id: {$in: salesIds}})
TotalAmount(ss, salesIds) == SumAmounts(ss, DOMAIN ss \cap salesIds)

\* the status the error handler gives a ValidationError thrown by the store:
\* the handler is not part of the sources, it is an error status in any case
ValidationErrorStatus == {400, 500}

\* the required paths of the TransferLog schema: a null value fails them
TransferLogValid(doc) ==
    /\ doc.transferType \in {"internal_data_transfer", "transfer_to_finance"}
    /\ doc.transferredBy # Null
    /\ doc.transferredFrom # Null

transferToFinanceBegin(s, caller, salesIds) ==
    /\ reqs[s] = Idle
    /\ caller \in DOMAIN users
    /\ LET code == IF ~restrictTo({MANAGER}, users[caller].role) THEN 403
                   ELSE IF users[caller].role # MANAGER THEN 403
                   ELSE IF salesIds = {} THEN 400
                   ELSE 0
       IN IF code # 0
          THEN /\ resp' = [op |-> "transferToFinance", status |-> code, count |-> 0]
               /\ UNCHANGED reqs
          ELSE /\ reqs' = [reqs EXCEPT ![s] =
                              [op |-> "transferToFinance", pc |-> "update",
                               caller |-> caller, salesIds |-> salesIds,
                               count |-> 0, flagged |-> {}]]
               /\ UNCHANGED resp
    /\ UNCHANGED <<org, data, nextId, budget>>

\* flagged is the set of sales the update changed: the handler holds only
\* its size, the set is kept to state properties
transferToFinanceUpdate(s) ==
    /\ reqs[s].op = "transferToFinance"
    /\ reqs[s].pc = "update"
    /\ LET ss1 == FlagForFinance(sales, reqs[s].salesIds)
           modifiedCount == ModifiedCount(sales, ss1)
       IN /\ sales' = ss1
          /\ IF modifiedCount = 0
             THEN /\ reqs' = [reqs EXCEPT ![s] = Idle]
                  /\ resp' = [op |-> "transferToFinance", status |-> 404, count |-> 0]
             ELSE /\ reqs' = [reqs EXCEPT ![s].pc = "log",
                                          ![s].count = modifiedCount,
                                          ![s].flagged =
                                              {x \in DOMAIN sales : ss1[x] # sales[x]}]
                  /\ UNCHANGED resp
    /\ UNCHANGED <<org, prospects, callLogs, transferLogs, nextId, budget>>

transferToFinanceLog(s) ==
    /\ reqs[s].op = "transferToFinance"
    /\ reqs[s].pc = "log"
    /\ LET doc == [transferType |-> "transfer_to_finance",
                   transferredBy |-> reqs[s].caller,
                   transferredFrom |-> Null,
                   transferredTo |-> Null,
                   dataCount |-> reqs[s].count,
                   dataIds |-> reqs[s].salesIds,
                   amount |-> TotalAmount(sales, reqs[s].salesIds)]
       IN IF TransferLogValid(doc)
          THEN /\ transferLogs' = Append(transferLogs, doc)
               /\ resp' = [op |-> "transferToFinance", status |-> 200,
                           count |-> reqs[s].count]
          ELSE /\ \E code \in ValidationErrorStatus :
                     resp' = [op |-> "transferToFinance", status |-> code,
                              count |-> 0]
               /\ UNCHANGED transferLogs
    /\ reqs' = [reqs EXCEPT ![s] = Idle]
    /\ UNCHANGED <<org, prospects, sales, callLogs, nextId, budget>>

\* ------------------------------------------------------------ specification
Slots == {1, 2}

\* the store as connected: no document in any collection
Init ==
    /\ users = <<>>
    /\ teams = <<>>
    /\ prospects = <<>>
    /\ sales = <<>>
    /\ callLogs = <<>>
    /\ transferLogs = <<>>
    /\ nextId = [user |-> 1, team |-> 1, prospect |-> 1, sale |-> 1, callLog |-> 1]
    /\ reqs = [s \in Slots |-> Idle]
    /\ resp = [op |-> "none", status |-> 0]
    /\ ops = 0
    /\ edits = 0
    /\ transfers = 0

Next ==
    \/ \E role \in ROLES : signup(role)
    \/ \E caller \in UserIds, role \in ROLES, tl \in AllocUsers \cup {Null} :
          createUser(caller, role, tl)
    \/ \E caller \in UserIds, target \in AllocUsers \cup {ForeignUser}, body \in Bodies :
          updateUser(caller, target, body)
    \/ \E caller \in UserIds, target \in AllocUsers \cup {ForeignUser} :
          deleteUserBegin(1, caller, target)
    \/ deleteUserUnassign(1)
    \/ deleteUserRemove(1)
    \/ \E caller \in UserIds, tl \in AllocUsers \cup {ForeignUser} :
          createTeam(caller, tl)
    \/ \E caller \in UserIds, teamId \in AllocTeams \cup {ForeignTeam},
          tl \in AllocUsers \cup {Null}, add \in MemberSets, rem \in MemberSets :
          updateTeam(caller, teamId, tl, add, rem)
    \/ \E caller \in UserIds, teamId \in AllocTeams \cup {ForeignTeam} :
          deleteTeamBegin(1, caller, teamId)
    \/ deleteTeamUnassign(1)
    \/ deleteTeamRemove(1)

Spec == Init /\ [][Next]_vars

\* ------------------------------------------------------- seeded organisation
\* A manager (1), two team leads (2 with team 1, 3 with team 2) and one
\* executive (4) reporting to lead 3: what signup(manager), signup(team_lead),
\* signup(team_lead) and createUser by 3 of a sales_executive leave.
SeedUsers ==
    <<NewUser(MANAGER, Null, Null),
      NewUser(TEAM_LEAD, Null, 1),
      NewUser(TEAM_LEAD, Null, 2),
      NewUser(SALES_EXECUTIVE, 3, 2)>>

SeedTeams == <<[teamLead |-> 2], [teamLead |-> 3]>>

Seeded ==
    /\ users = SeedUsers
    /\ teams = SeedTeams
    /\ prospects = <<>>
    /\ sales = <<>>
    /\ callLogs = <<>>
    /\ transferLogs = <<>>
    /\ nextId = [user |-> 5, team |-> 3, prospect |-> 1, sale |-> 1, callLog |-> 1]
    /\ reqs = [s \in Slots |-> Idle]
    /\ resp = [op |-> "createUser", status |-> 201]
    /\ ops = 4
    /\ edits = 0
    /\ transfers = 0

\* the transfer requests tried: any caller, source and target, up to two ids
IdSets(alloc, foreign) ==
    {S \in SUBSET (alloc \cup {foreign}) : Cardinality(S) <= 2}

TransferCalls ==
    UNION { { TransferCall(caller, src, tgt, dataIds, "prospects") :
                dataIds \in IdSets(AllocProspects, ForeignProspect) }
            \cup
            { TransferCall(caller, src, tgt, dataIds, "sales") :
                dataIds \in IdSets(AllocSales, ForeignSale) \ {{}} }
            \cup
            { TransferCall(caller, src, tgt, {ForeignProspect}, "callLogs") } :
            caller \in DOMAIN users,
            src \in DOMAIN users \cup {ForeignUser},
            tgt \in DOMAIN users \cup {ForeignUser} }

\* records are created, then moved by one transfer request at a time
NextTransfer ==
    \/ /\ transfers = 0
       /\ \E caller \in DOMAIN users, complete \in BOOLEAN,
             assigned \in DOMAIN users \cup {Null} :
             createProspect(caller, complete, assigned, Null)
    \/ /\ transfers = 0
       /\ \E caller \in DOMAIN users, assigned \in DOMAIN users \cup {Null} :
             createSale(1, caller, TRUE, assigned, Null, 1)
    \/ /\ AllIdle
       /\ transfers < MaxTransfers
       /\ \E c \in TransferCalls : transferBegin(1, c)
    \/ transferUpdate(1)
    \/ transferLog(1)

SpecTransfer == Seeded /\ [][NextTransfer]_vars

\* the requests that race: transfers of existing prospects
RaceCalls ==
    { TransferCall(caller, src, tgt, dataIds, "prospects") :
        caller \in DOMAIN users, src \in DOMAIN users, tgt \in DOMAIN users,
        dataIds \in SUBSET AllocProspects \ {{}} }

\* prospects are created, then two transfer requests run at once
NextRace ==
    \/ /\ transfers = 0
       /\ \E caller \in DOMAIN users, assigned \in DOMAIN users \cup {Null} :
             createProspect(caller, TRUE, assigned, Null)
    \/ /\ transfers < MaxTransfers
       /\ \E s \in Slots, c \in RaceCalls : transferBegin(s, c)
    \/ \E s \in Slots : transferUpdate(s)
    \/ \E s \in Slots : transferLog(s)

SpecRace == Seeded /\ [][NextRace]_vars

\* the queries tried: each reference parameter absent or naming a user, the
\* date condition absent or keeping all records but the first
Queries(members, executives, leads, alloc) ==
    { Query(m, e, t, dated, IF dated THEN alloc \ {1} ELSE {}) :
        m \in members, e \in executives, t \in leads, dated \in BOOLEAN }

\* records are created and touched, and every role reads them
NextScope ==
    \/ \E caller \in DOMAIN users, assigned \in DOMAIN users \cup {Null} :
          createProspect(caller, TRUE, assigned, Null)
    \/ \E caller \in DOMAIN users, assigned \in DOMAIN users \cup {Null} :
          createSale(1, caller, TRUE, assigned, Null, 1)
    \/ \E caller \in DOMAIN users, complete \in BOOLEAN :
          createCallLog(caller, complete, "Talked", Null)
    \/ \E caller \in DOMAIN users,
          q \in Queries(DOMAIN users \cup {Null}, {Null}, {Null}, AllocProspects) :
          getAllProspects(caller, q)
    \/ \E caller \in DOMAIN users,
          q \in Queries(DOMAIN users \cup {Null}, {Null}, {Null}, AllocProspects) :
          getUntouchedProspects(caller, q)
    \/ \E caller \in DOMAIN users,
          q \in Queries({Null}, DOMAIN users \cup {Null}, {Null, 3}, AllocSales) :
          getAllSales(caller, q)
    \/ \E caller \in DOMAIN users,
          q \in Queries({Null}, DOMAIN users \cup {Null}, {Null}, AllocCallLogs) :
          getAllCallLogs(caller, q)
    \/ \E caller \in DOMAIN users, id \in AllocProspects \cup {ForeignProspect} :
          getProspect(caller, id)
    \/ \E caller \in DOMAIN users, id \in AllocCallLogs \cup {ForeignCallLog} :
          getCallLog(caller, id)
    \/ \E caller \in DOMAIN users, id \in AllocSales \cup {ForeignSale} :
          getSale(caller, id)
    \/ \E caller \in DOMAIN users, id \in AllocUsers \cup {ForeignUser} :
          getUser(caller, id)
    \/ \E caller \in DOMAIN users, id \in AllocProspects \cup {ForeignProspect} :
          updateProspect(caller, id, ProspectBody({"activity"}, "Contacted", TRUE))
    \/ \E caller \in DOMAIN users, id \in AllocCallLogs \cup {ForeignCallLog} :
          updateCallLog(caller, id, CallLogBody({"activity"}, "Follow Up"))

SpecScope == Seeded /\ [][NextScope]_vars

\* ================================================================== claims
\* a response that reports success
Success(r) == r.status \in {200, 201, 204}

\* ------------------------------------------------------------------------
\* C1: after any completed, successful sequence of user and team operations
\* every sales executive has manager and team both null, or a manager that
\* is an existing team lead whose own team equals the executive's team.
ExecutiveConsistent(us, e) ==
    \/ us[e].manager = Null /\ us[e].team = Null
    \/ /\ us[e].manager \in DOMAIN us
       /\ us[us[e].manager].role = TEAM_LEAD
       /\ us[us[e].manager].team = us[e].team

C1_ExecutiveManagerTeamConsistent ==
    (AllIdle /\ Success(resp)) =>
        \A e \in DOMAIN users :
            users[e].role = SALES_EXECUTIVE => ExecutiveConsistent(users, e)

\* ------------------------------------------------------------------------
\* C3: when deleteUser completes on a team lead T, no Team document is led
\* by T, and no user is left with manager = T or with team = T's former team.
C3_DeleteLeadLeavesNoReference ==
    [][\A s \in Slots :
          (/\ reqs[s].op = "deleteUser"
           /\ reqs[s].pc = "remove"
           /\ reqs'[s] = Idle
           /\ users[reqs[s].target].role = TEAM_LEAD)
          => LET T == reqs[s].target
                 former == users[T].team
             IN /\ TeamsLedBy(teams', T) = {}
                /\ former # Null => former \notin DOMAIN teams'
                /\ \A u \in DOMAIN users' :
                       /\ users'[u].manager # T
                       /\ former # Null => users'[u].team # former]_vars

\* ------------------------------------------------------------------------
\* C4: in every cascade the Team document is deleted only after the updates
\* that unassign its dependants: no step removes a Team while an executive
\* still has team pointing at it and manager pointing at its lead.
C4_TeamDeletedAfterUnassign ==
    [][\A t \in DOMAIN teams \ DOMAIN teams' :
          \A u \in DOMAIN users' :
              ~(/\ users'[u].role = SALES_EXECUTIVE
                /\ users'[u].team = t
                /\ users'[u].manager = teams[t].teamLead)]_vars

\* ------------------------------------------------------------------------
\* the records of a collection that a step created or whose owner or team
\* lead it wrote
OwnerWritten(before, after) ==
    {x \in DOMAIN after :
        \/ x \notin DOMAIN before
        \/ after[x].salesExecutive # before[x].salesExecutive
        \/ after[x].teamLead # before[x].teamLead}

\* C2: at each write that sets or changes the owner of a Prospect or a Sale,
\* the stored teamLead equals the manager field of the owning user, whatever
\* that user's role.
C2_TeamLeadIsOwnersManager ==
    [][/\ \A p \in OwnerWritten(prospects, prospects') :
             prospects'[p].teamLead = users[prospects'[p].salesExecutive].manager
       /\ \A x \in OwnerWritten(sales, sales') :
             sales'[x].teamLead = users[sales'[x].salesExecutive].manager]_vars

\* the team lead the handlers store for an owner
OwnersTeamLead(us, owner) ==
    IF us[owner].role = TEAM_LEAD THEN owner ELSE us[owner].manager

\* C2, amended: at each such write the stored teamLead equals the owner's
\* manager when the owner is a sales executive, and the owner's own id when
\* the owner is a team lead.
C2_TeamLeadFollowsOwnersRole ==
    [][/\ \A p \in OwnerWritten(prospects, prospects') :
             prospects'[p].teamLead = OwnersTeamLead(users, prospects'[p].salesExecutive)
       /\ \A x \in OwnerWritten(sales, sales') :
             sales'[x].teamLead = OwnersTeamLead(users, sales'[x].salesExecutive)]_vars

\* a transfer has moved a prospect to an executive and a team lead owns a sale
C2_Witness ==
    /\ resp.op = "transfer"
    /\ resp.status = 200
    /\ \E p \in DOMAIN prospects :
          /\ users[prospects[p].salesExecutive].role = SALES_EXECUTIVE
          /\ prospects[p].salesExecutive = resp.call.targetUserId
          /\ prospects[p].teamLead = 3
    /\ \E x \in DOMAIN sales :
          /\ users[sales[x].salesExecutive].role = TEAM_LEAD
          /\ sales[x].teamLead = sales[x].salesExecutive

\* ------------------------------------------------------------------------
\* slot s performs its updateMany in this step
UpdateStep(s) ==
    /\ reqs[s].op = "transfer"
    /\ reqs[s].pc = "update"
    /\ reqs'[s] # reqs[s]

Changed(before, after) == {x \in DOMAIN before : after[x] # before[x]}

\* the count the request goes on with after its update
Counted(s) == IF reqs'[s] = Idle THEN resp'.count ELSE reqs'[s].count

\* C5: a transfer from A to B of ids of one data type changes only records
\* of that type that are in ids and owned by A at the time of the update;
\* every other record of either type is left as it was, and the count
\* reported equals the number of records moved.
C5_TransferFrameAndCount ==
    [][/\ \A s \in Slots : UpdateStep(s) =>
             LET c == reqs[s].call
                 mine == IF c.dataType = "prospects" THEN prospects ELSE sales
                 mine1 == IF c.dataType = "prospects" THEN prospects' ELSE sales'
                 other == IF c.dataType = "prospects" THEN sales ELSE prospects
                 other1 == IF c.dataType = "prospects" THEN sales' ELSE prospects'
                 matching == {x \in DOMAIN mine :
                                 x \in c.dataIds /\ mine[x].salesExecutive = c.sourceUserId}
             IN /\ other1 = other
                /\ DOMAIN mine1 = DOMAIN mine
                /\ Changed(mine, mine1) \subseteq matching
                /\ \A x \in matching : mine1[x].salesExecutive = c.targetUserId
                /\ Counted(s) = Cardinality(Changed(mine, mine1))
                /\ callLogs' = callLogs
       /\ \A s \in Slots :
             (reqs[s].op = "transfer" /\ reqs[s].pc = "log" /\ reqs'[s] = Idle) =>
                /\ resp'.count = reqs[s].count
                /\ prospects' = prospects
                /\ sales' = sales]_vars

\* a transfer that named two prospects, one owned by the source and one not,
\* has moved one and reported 1
C5_Witness ==
    /\ resp.op = "transfer"
    /\ resp.status = 200
    /\ resp.count = 1
    /\ resp.call.dataType = "prospects"
    /\ resp.call.dataIds = {1, 2}
    /\ resp.call.sourceUserId # resp.call.targetUserId
    /\ DOMAIN prospects = {1, 2}
    /\ \E p \in {1, 2} :
          /\ prospects[p].salesExecutive = resp.call.targetUserId
          /\ prospects[3 - p].salesExecutive \notin
                {resp.call.sourceUserId, resp.call.targetUserId}
    /\ DOMAIN sales = {1}

\* ------------------------------------------------------------------------
\* C6: the same transfer call (A # B), made again right after it succeeded,
\* passes the checks, moves nothing, ends with 404, changes no Prospect or
\* Sale and appends no TransferLog entry.
C6_RepeatedTransferMovesNothing ==
    [][(/\ resp.op = "transfer"
        /\ resp.status = 200
        /\ resp.call.sourceUserId # resp.call.targetUserId)
       => /\ restrictTo({MANAGER, TEAM_LEAD}, users[resp.call.caller].role)
          /\ TransferChecks(users, resp.call) = 0
          /\ \A s \in Slots :
                (UpdateStep(s) /\ reqs[s].call = resp.call) =>
                   /\ reqs'[s] = Idle
                   /\ resp'.status = 404
                   /\ resp'.count = 0
                   /\ prospects' = prospects
                   /\ sales' = sales
                   /\ transferLogs' = transferLogs]_vars

\* the second of two transfer requests repeated the first, which had
\* succeeded, and ended with 404
C6_Witness ==
    /\ transfers = 2
    /\ AllIdle
    /\ resp.op = "transfer"
    /\ resp.status = 404
    /\ resp.call.sourceUserId # resp.call.targetUserId
    /\ resp.call.dataType = "prospects"
    /\ sales = <<>>
    /\ Len(transferLogs) = 1
    /\ transferLogs[1].transferredBy = resp.call.caller
    /\ transferLogs[1].transferredFrom = resp.call.sourceUserId
    /\ transferLogs[1].transferredTo = resp.call.targetUserId
    /\ transferLogs[1].dataIds = resp.call.dataIds

\* ------------------------------------------------------------------------
\* slots s and t hold transfer requests for prospect p from the same source
\* to different targets, neither of them the source
Rivals(s, t, p) ==
    /\ s # t
    /\ reqs[s].op = "transfer"
    /\ reqs[t].op = "transfer"
    /\ reqs[s].call.dataType = "prospects"
    /\ reqs[t].call.dataType = "prospects"
    /\ reqs[s].call.sourceUserId = reqs[t].call.sourceUserId
    /\ reqs[s].call.targetUserId # reqs[t].call.targetUserId
    /\ reqs[s].call.targetUserId # reqs[s].call.sourceUserId
    /\ reqs[t].call.targetUserId # reqs[t].call.sourceUserId
    /\ p \in reqs[s].call.dataIds
    /\ p \in reqs[t].call.dataIds

\* C7: of two concurrent transfers of a record owned by A, one to B and one
\* to C, the update that finds the record still owned by A moves it to its
\* own target with that target's team lead and counts it; the update that
\* comes after leaves the record as the winner wrote it and does not count it.
C7_ConcurrentTransfersOneWinner ==
    [][\A s \in Slots, t \in Slots, p \in DOMAIN prospects :
          (UpdateStep(s) /\ Rivals(s, t, p)) =>
             LET c == reqs[s].call
                 moved == Changed(prospects, prospects')
             IN /\ Counted(s) = Cardinality(moved)
                /\ IF prospects[p].salesExecutive = c.sourceUserId
                   THEN /\ reqs[t].pc = "update"
                        /\ p \in moved
                        /\ prospects'[p].salesExecutive = c.targetUserId
                        /\ prospects'[p].teamLead =
                              OwnersTeamLead(users, c.targetUserId)
                   ELSE /\ p \notin moved
                        /\ prospects'[p] = prospects[p]]_vars

\* the winner of a race for prospect 1 has written and not yet logged, and
\* its rival has ended with 404
C7_Witness ==
    /\ transfers = 2
    /\ reqs[1].op = "transfer"
    /\ reqs[1].pc = "log"
    /\ reqs[1].count = 1
    /\ reqs[2] = Idle
    /\ resp.op = "transfer"
    /\ resp.status = 404
    /\ reqs[1].call.dataIds = {1}
    /\ resp.call.dataIds = {1}
    /\ resp.call.sourceUserId = reqs[1].call.sourceUserId
    /\ resp.call.targetUserId # reqs[1].call.targetUserId
    /\ resp.call.targetUserId # resp.call.sourceUserId
    /\ resp.call.caller # reqs[1].call.caller
    /\ prospects[1].salesExecutive = reqs[1].call.targetUserId

\* ------------------------------------------------------------------------
\* the collection a list or single-record response is about
Listed(r) ==
    IF r.op \in {"getAllProspects", "getUntouchedProspects"} THEN prospects
    ELSE IF r.op = "getAllSales" THEN sales
    ELSE callLogs

\* C8: every record a list operation returns to a sales executive C has
\* salesExecutive = C, whatever query parameters C supplies.
C8_ExecutiveListsOnlyOwnRecords ==
    (/\ resp.op \in {"getAllProspects", "getAllSales", "getAllCallLogs"}
     /\ resp.status = 200
     /\ users[resp.caller].role = SALES_EXECUTIVE)
    => \A x \in resp.ids : Listed(resp)[x].salesExecutive = resp.caller

\* C9: without narrowing parameters the lists of a team lead C are exactly
\* the records owned by C itself or by a sales executive with manager = C.
C9_TeamLeadListsOwnAndReports ==
    (/\ resp.op \in {"getAllProspects", "getAllSales", "getAllCallLogs"}
     /\ resp.status = 200
     /\ users[resp.caller].role = TEAM_LEAD
     /\ ~resp.narrowed)
    => resp.ids =
          {x \in DOMAIN Listed(resp) :
              LET owner == Listed(resp)[x].salesExecutive
              IN \/ owner = resp.caller
                 \/ /\ users[owner].role = SALES_EXECUTIVE
                    /\ users[owner].manager = resp.caller}

\* ------------------------------------------------------------------------
\* owner reports to a team lead other than lead
ReportsToOtherLead(us, owner, lead) ==
    /\ owner \in DOMAIN us
    /\ us[owner].manager \in DOMAIN us
    /\ us[owner].manager # lead
    /\ us[us[owner].manager].role = TEAM_LEAD

\* C10: a team lead T1 never obtains a Prospect or CallLog owned by a report
\* of another team lead: no list returns one to T1, with or without
\* narrowing, and getProspect, updateProspect, getCallLog and updateCallLog
\* on one by T1 end with 403 and change nothing.
C10_TeamLeadNeverReachesOtherTeamsRecords ==
    [][/\ (/\ resp'.op \in {"getAllProspects", "getUntouchedProspects", "getAllCallLogs"}
           /\ users[resp'.caller].role = TEAM_LEAD)
          => \A x \in resp'.ids :
                ~ReportsToOtherLead(users, Listed(resp')[x].salesExecutive, resp'.caller)
       /\ (/\ resp'.op \in {"getProspect", "updateProspect"}
           /\ users[resp'.caller].role = TEAM_LEAD
           /\ resp'.id \in DOMAIN prospects
           /\ ReportsToOtherLead(users, prospects[resp'.id].salesExecutive, resp'.caller))
          => /\ resp'.status = 403
             /\ UNCHANGED <<org, data>>
       /\ (/\ resp'.op \in {"getCallLog", "updateCallLog"}
           /\ users[resp'.caller].role = TEAM_LEAD
           /\ resp'.id \in DOMAIN callLogs
           /\ ReportsToOtherLead(users, callLogs[resp'.id].salesExecutive, resp'.caller))
          => /\ resp'.status = 403
             /\ UNCHANGED <<org, data>>]_vars

\* team lead 2 has been refused the update of a call log of executive 4, who
\* reports to team lead 3 and also owns a prospect
C10_Witness ==
    /\ resp.op = "updateCallLog"
    /\ resp.status = 403
    /\ resp.caller = 2
    /\ resp.id \in DOMAIN callLogs
    /\ callLogs[resp.id].salesExecutive = 4
    /\ users[4].manager = 3
    /\ \E p \in DOMAIN prospects : prospects[p].salesExecutive = 4

\* the bodies of PATCH /users/:id that are tried on the profile fields: any
\* of the fields open to a team lead, with or without a password, and
\* groups of the fields reserved to a manager
ProfileBodies ==
    { Body(open \cup reserved, MANAGER, 1, 2) :
        open \in SUBSET {"name", "status", "password"},
        reserved \in {{}, {"role"}, {"team", "manager"}, {"refId", "bankDetails"},
                      {"role", "team", "manager", "refId", "bankDetails"}} }

\* the seeded organisation, the requests being counted from here
SeededProfile ==
    /\ users = SeedUsers
    /\ teams = SeedTeams
    /\ prospects = <<>>
    /\ sales = <<>>
    /\ callLogs = <<>>
    /\ transferLogs = <<>>
    /\ nextId = [user |-> 5, team |-> 3, prospect |-> 1, sale |-> 1, callLog |-> 1]
    /\ reqs = [s \in Slots |-> Idle]
    /\ resp = [op |-> "createUser", status |-> 201]
    /\ ops = 0
    /\ edits = 0
    /\ transfers = 0

\* users edit their own profile and those of others
NextProfile ==
    \E caller \in DOMAIN users, target \in AllocUsers \cup {ForeignUser},
       body \in ProfileBodies :
       updateUser(caller, target, body)

SpecProfile == SeededProfile /\ [][NextProfile]_vars

\* the manager edits users and re-staffs the teams of the seeded organisation
NextTeam ==
    \/ \E target \in DOMAIN users, body \in Bodies : updateUser(1, target, body)
    \/ \E caller \in {1, 2}, teamId \in AllocTeams \cup {ForeignTeam},
          tl \in AllocUsers \cup {Null}, add \in MemberSets, rem \in {{}, {4}} :
          updateTeam(caller, teamId, tl, add, rem)

SpecTeam == SeededProfile /\ [][NextTeam]_vars

\* lead 3 creates records for itself and for executive 4, and the manager
\* deletes users of the seeded organisation while users are read
NextDelete ==
    \/ \E assigned \in {Null, 4} : createProspect(3, TRUE, assigned, Null)
    \/ \E assigned \in {Null, 4} : createSale(2, 3, TRUE, assigned, Null, 1)
    \/ \E caller \in DOMAIN users, target \in AllocUsers \cup {ForeignUser} :
          deleteUserBegin(1, caller, target)
    \/ deleteUserUnassign(1)
    \/ deleteUserRemove(1)
    \/ \E caller \in DOMAIN users, id \in AllocUsers : getUser(caller, id)

SpecDelete == SeededProfile /\ [][NextDelete]_vars

\* the sales of the seeded organisation after three createSale requests by
\* executive 4, with amounts 1, 2 and 4
SeedSales ==
    [x \in 1..3 |->
        [salesExecutive |-> 4, teamLead |-> 3, prospect |-> Null,
         amount |-> 2 ^ (x - 1), isTransferredToFinance |-> FALSE]]

SeededSales ==
    /\ users = SeedUsers
    /\ teams = SeedTeams
    /\ prospects = <<>>
    /\ sales = SeedSales
    /\ callLogs = <<>>
    /\ transferLogs = <<>>
    /\ nextId = [user |-> 5, team |-> 3, prospect |-> 1, sale |-> 4, callLog |-> 1]
    /\ reqs = [s \in Slots |-> Idle]
    /\ resp = [op |-> "createSale", status |-> 201]
    /\ ops = 4
    /\ edits = 0
    /\ transfers = 0

\* sales are handed to finance, one request at a time
NextFinance ==
    \/ /\ AllIdle
       /\ \E caller \in DOMAIN users,
             salesIds \in SUBSET (AllocSales \cup {ForeignSale}) :
             transferToFinanceBegin(1, caller, salesIds)
    \/ transferToFinanceUpdate(1)
    \/ transferToFinanceLog(1)

SpecFinance == SeededSales /\ [][NextFinance]_vars

\* the bodies of PATCH /prospects/:id that are tried
ProspectBodies ==
    UNION { { ProspectBody(has, a, u) :
                a \in IF "activity" \in has THEN {"Contacted", "Converted"}
                                             ELSE {"Contacted"},
                u \in IF "isUntouched" \in has THEN BOOLEAN ELSE {TRUE} } :
            has \in SUBSET {"activity", "isUntouched"} }

\* prospects are created, called about, edited and sold, an edit being able
\* to land between the two writes of a sale
NextLifecycle ==
    \/ \E caller \in {1, 4}, prospectId \in AllocProspects \cup {Null} :
          createProspect(caller, TRUE, 4, prospectId)
    \/ \E caller \in {1, 4}, prospectId \in AllocProspects \cup {Null},
          amount \in {0, 1} :
          createSale(1, caller, TRUE, 4, prospectId, amount)
    \/ createSaleConvert(1)
    \/ \E caller \in {1, 4}, activity \in {"Talked", "Converted"},
          prospectId \in AllocProspects \cup {Null} :
          createCallLog(caller, TRUE, activity, prospectId)
    \/ \E caller \in {1, 4}, id \in AllocProspects \cup {ForeignProspect},
          body \in ProspectBodies :
          updateProspect(caller, id, body)
    \/ \E caller \in {1, 4}, id \in AllocCallLogs :
          updateCallLog(caller, id,
                        CallLogBody({"activity"}, "Delete Client's Profile"))

SpecLifecycle == Seeded /\ [][NextLifecycle]_vars

\* the two team leads create prospects of their own, and lead 2 and executive
\* 4 create sales, call logs and prospects that name an existing prospect
NextLinked ==
    \/ \E caller \in {2, 3}, prospectId \in AllocProspects \cup {Null} :
          createProspect(caller, TRUE, Null, prospectId)
    \/ \E caller \in {2, 4}, prospectId \in AllocProspects \cup {Null} :
          createSale(1, caller, TRUE, Null, prospectId, 1)
    \/ createSaleConvert(1)
    \/ \E caller \in {2, 4}, prospectId \in AllocProspects \cup {Null} :
          createCallLog(caller, TRUE, "Talked", prospectId)
    \/ \E caller \in {2, 4}, id \in AllocCallLogs :
          updateCallLog(caller, id,
                        CallLogBody({"activity"}, "Delete Client's Profile"))

SpecLinked == Seeded /\ [][NextLinked]_vars

\* lead 3 records a sale for itself or for executive 4, the manager edits
\* executive 4, and every user reads the sale
NextReassign ==
    \/ \E assigned \in {Null, 4} : createSale(1, 3, TRUE, assigned, Null, 1)
    \/ \E body \in Bodies : updateUser(1, 4, body)
    \/ \E caller \in DOMAIN users, id \in AllocSales \cup {ForeignSale} :
          getSale(caller, id)

SpecReassign == SeededProfile /\ [][NextReassign]_vars

\* the transfers the manager asks for between lead 3 and executive 4
OrphanCalls ==
    { TransferCall(1, src, tgt, dataIds, "prospects") :
        src \in {3, 4}, tgt \in {3, 4}, dataIds \in SUBSET AllocProspects \ {{}} }

\* lead 3 creates prospects, the manager edits the manager field of
\* executive 4 and moves prospects between lead 3 and executive 4
NextOrphan ==
    \/ \E assigned \in {Null, 4} : createProspect(3, TRUE, assigned, Null)
    \/ \E m \in {Null, 2} : updateUser(1, 4, Body({"manager"}, SALES_EXECUTIVE, Null, m))
    \/ \E c \in OrphanCalls : transferBegin(1, c)
    \/ transferUpdate(1)
    \/ transferLog(1)

SpecOrphan == SeededProfile /\ [][NextOrphan]_vars

\* ------------------------------------------------------------------------
\* the ids whose records caller may ask for: its own, and for a team lead
\* those of the sales executives it manages
ScopeOf(us, caller) ==
    IF us[caller].role = TEAM_LEAD THEN {caller} \cup TeamMemberIds(us, caller)
    ELSE {caller}

\* what a list narrowed to the records of id owes caller
NarrowedOutcome(caller, id, coll) ==
    LET owned == {x \in DOMAIN coll : coll[x].salesExecutive = id}
    IN IF users[caller].role = MANAGER
       THEN resp'.status = 200 /\ resp'.ids = owned
       ELSE IF id \in ScopeOf(users, caller)
       THEN resp'.status = 200 /\ resp'.ids = owned
       ELSE resp'.status = 403 /\ resp'.ids = {}

\* C11: a list narrowed to a single id (memberId on prospects and untouched
\* prospects, executiveId on sales and call logs) answers a non-manager 403
\* with no records when the id is outside the caller's scope and exactly
\* that id's records when it is inside, and never rejects a manager.
C11_NarrowingIdCheckedAgainstScope ==
    [][\A caller \in DOMAIN users, id \in DOMAIN users :
          /\ getAllProspects(caller, Query(id, Null, Null, FALSE, {}))
                => NarrowedOutcome(caller, id, prospects)
          /\ getUntouchedProspects(caller, Query(id, Null, Null, FALSE, {}))
                => NarrowedOutcome(caller, id,
                       [x \in {y \in DOMAIN prospects : prospects[y].isUntouched}
                           |-> prospects[x]])
          /\ getAllSales(caller, Query(Null, id, Null, FALSE, {}))
                => NarrowedOutcome(caller, id, sales)
          /\ getAllCallLogs(caller, Query(Null, id, Null, FALSE, {}))
                => NarrowedOutcome(caller, id, callLogs)]_vars

\* ------------------------------------------------------------------------
\* the users a caller may read or edit: itself, for a team lead the sales
\* executives it manages, for a manager everyone
UserInScope(us, caller, id) ==
    \/ id = caller
    \/ us[caller].role = MANAGER
    \/ /\ us[caller].role = TEAM_LEAD
       /\ us[id].role = SALES_EXECUTIVE
       /\ us[id].manager = caller

\* the records a caller may read or edit, by their owner
RecordInScope(us, caller, owner) ==
    \/ us[caller].role = MANAGER
    \/ owner \in ScopeOf(us, caller)

\* 404 for an absent target, and 403 only for a present one out of scope
AbsentOrScoped(status, present, inScope) ==
    /\ ~present => status = 404
    /\ status = 403 => present /\ ~inScope

\* C12: every single-entity read or update (getUser, updateUser, getProspect,
\* updateProspect, getSale, getCallLog, updateCallLog) answers 404 when the
\* target id does not exist, and 403 only when the entity exists and is
\* outside the caller's scope.
C12_AbsentIs404AndForbiddenIsOutOfScope ==
    [][/\ resp'.op = "getUser"
          => AbsentOrScoped(resp'.status, resp'.id \in DOMAIN users,
                            UserInScope(users, resp'.caller, resp'.id))
       /\ \A caller \in DOMAIN users, target \in AllocUsers \cup {ForeignUser},
             body \in Bodies :
             updateUser(caller, target, body)
             => AbsentOrScoped(resp'.status, target \in DOMAIN users,
                               UserInScope(users, caller, target))
       /\ resp'.op \in {"getProspect", "updateProspect"}
          => AbsentOrScoped(resp'.status, resp'.id \in DOMAIN prospects,
                            RecordInScope(users, resp'.caller,
                                          prospects[resp'.id].salesExecutive))
       /\ resp'.op = "getSale"
          => AbsentOrScoped(resp'.status, resp'.id \in DOMAIN sales,
                            RecordInScope(users, resp'.caller,
                                          sales[resp'.id].salesExecutive))
       /\ resp'.op \in {"getCallLog", "updateCallLog"}
          => AbsentOrScoped(resp'.status, resp'.id \in DOMAIN callLogs,
                            RecordInScope(users, resp'.caller,
                                          callLogs[resp'.id].salesExecutive))]_vars

\* ------------------------------------------------------------------------
\* C13: a createSale that succeeds with a reference to a Prospect returns
\* with the Sale stored and referencing that Prospect, and the Prospect with
\* activity "Converted" and isUntouched false; a createSale that fails
\* stores no Sale, so no finished createSale leaves a Sale whose Prospect it
\* did not convert.
C13_SaleConvertsItsProspect ==
    [][/\ createSaleConvert(1)
          => LET p == reqs[1].prospectId
                 id == reqs[1].sale
             IN /\ resp'.status = 201
                /\ id \in DOMAIN sales'
                /\ sales'[id].prospect = p
                /\ p \in DOMAIN prospects'
                   => /\ prospects'[p].activity = "Converted"
                      /\ ~prospects'[p].isUntouched
       /\ \A caller \in {1, 4}, prospectId \in AllocProspects \cup {Null},
             amount \in {0, 1} :
             (/\ createSale(1, caller, TRUE, 4, prospectId, amount)
              /\ reqs' = reqs
              /\ resp'.status # 201)
             => sales' = sales /\ prospects' = prospects]_vars

\* a sale of prospect 1 has returned: the sale is stored and the prospect
\* converted
C13_Witness ==
    /\ resp = [op |-> "createSale", status |-> 201]
    /\ 1 \in DOMAIN sales
    /\ sales[1].prospect = 1
    /\ 1 \in DOMAIN prospects
    /\ prospects[1].activity = "Converted"
    /\ ~prospects[1].isUntouched

\* ------------------------------------------------------------------------
\* C14: a create-Prospect request through the routed API by a sales
\* executive X whose manager is team lead Y succeeds, and the Prospect stored
\* has salesExecutive = X, teamLead = Y, activity "New" and isUntouched true.
C14_ExecutiveCreatesOwnProspect ==
    [][\A caller \in DOMAIN users, assigned \in DOMAIN users \cup {Null} :
          (/\ createProspect(caller, TRUE, assigned, Null)
           /\ users[caller].role = SALES_EXECUTIVE
           /\ users[caller].manager \in DOMAIN users
           /\ users[users[caller].manager].role = TEAM_LEAD)
          => /\ resp'.status = 201
             /\ nextId.prospect \in DOMAIN prospects'
             /\ prospects'[nextId.prospect] =
                   [salesExecutive |-> caller,
                    teamLead |-> users[caller].manager,
                    activity |-> "New",
                    isUntouched |-> TRUE]]_vars

\* ------------------------------------------------------------------------
\* C15: a transferToFinance call by a manager over sale ids of which some are
\* already transferred reports a modified count equal to the number of sales
\* this call newly flagged, and writes a TransferLog entry whose amount is
\* the sum of the amounts of exactly those sales.
C15_FinanceCountAndAmountOfNewlyFlagged ==
    [][(/\ transferToFinanceLog(1)
        /\ \E x \in reqs[1].salesIds \cap DOMAIN sales : x \notin reqs[1].flagged)
       => /\ resp'.status = 200
          /\ resp'.count = Cardinality(reqs[1].flagged)
          /\ Len(transferLogs') = Len(transferLogs) + 1
          /\ transferLogs'[Len(transferLogs')].amount =
                SumAmounts(sales, reqs[1].flagged)]_vars

\* every sale flagged as transferred is named by a finance TransferLog entry
FlaggedSalesAreLogged ==
    \A x \in DOMAIN sales :
        sales[x].isTransferredToFinance
        => \E i \in 1..Len(transferLogs) :
              /\ transferLogs[i].transferType = "transfer_to_finance"
              /\ x \in transferLogs[i].dataIds

\* C16: a transferToFinance call by a manager that newly flags a sale
\* succeeds and appends exactly one TransferLog entry of type
\* transfer_to_finance; a call whose ids are all flagged already or invalid
\* fails, changes no Sale and appends no entry; and when no request is in
\* progress no Sale is flagged without a TransferLog entry naming it.
C16_FinanceTransferIsLogged ==
    [][/\ transferToFinanceLog(1)
          => /\ resp'.status = 200
             /\ Len(transferLogs') = Len(transferLogs) + 1
             /\ transferLogs'[Len(transferLogs')].transferType = "transfer_to_finance"
       /\ (transferToFinanceUpdate(1) /\ reqs'[1] = Idle)
          => /\ resp'.status = 404
             /\ sales' = sales
             /\ transferLogs' = transferLogs
       /\ AllIdle' => FlaggedSalesAreLogged']_vars

\* ------------------------------------------------------------------------
\* C17: for every Prospect, across any sequence of operations by any callers,
\* once isUntouched is false it never becomes true again.
C17_UntouchedNeverReturns ==
    [][\A p \in DOMAIN prospects :
          ~prospects[p].isUntouched => ~prospects'[p].isUntouched]_vars

\* C18: in every reachable state a Prospect has activity "Converted" only if
\* some Sale references it.
C18_ConvertedOnlyBySale ==
    \A p \in DOMAIN prospects :
        prospects[p].activity = "Converted"
        => \E x \in DOMAIN sales : sales[x].prospect = p

\* ------------------------------------------------------------------------
\* caller is a team lead and target a sales executive it manages
LeadEditsReport(us, caller, target) ==
    /\ us[caller].role = TEAM_LEAD
    /\ target # caller
    /\ us[target].role = SALES_EXECUTIVE
    /\ us[target].manager = caller

\* the fields of target that an edit by a non-manager, or of one's own
\* profile, leaves alone: after is the collection the edit leaves
ReservedFieldsKept(caller, target, after) ==
    /\ after[target].role = users[target].role
    /\ after[target].refId = users[target].refId
    /\ after[target].team = users[target].team
    /\ after[target].manager = users[target].manager
    /\ after[target].bankDetails = users[target].bankDetails
    /\ ~LeadEditsReport(users, caller, target)
       => after[target].status = users[target].status

\* the request succeeded and wrote the fields of body open to the caller
AllowedFieldsWritten(caller, target, body, r) ==
    /\ r.status = 200
    /\ "name" \in body.has => r.users[target].name = body.name
    /\ ("status" \in body.has /\ LeadEditsReport(users, caller, target))
       => r.users[target].status = body.status

IneligibleMember(us, addMembers) ==
    \E u \in addMembers : u \notin DOMAIN us \/ us[u].role # SALES_EXECUTIVE

\* C20: an updateTeam request of the manager on an existing team whose
\* addMembers list contains an id that is not an eligible sales_executive
\* fails with 400 and leaves every User and Team document unchanged, also
\* when the same request carries a teamLeadId reassignment.
C20_BadAddMembersChangesNothing ==
    [][\A teamId \in DOMAIN teams, tl \in AllocUsers \cup {Null}, add \in MemberSets :
          (/\ resp'.op = "updateTeam"
           /\ IneligibleMember(users, add)
           /\ updateTeam(1, teamId, tl, add, {}))
          => resp'.status = 400 /\ users' = users /\ teams' = teams]_vars

\* ---------------------------------------------------------------- claim C21
\* C21: a manager can delete a user of role manager: a DELETE /users/:id of
\* a manager on another stored manager is taken up (and then sets the manager
\* of that manager's team leads to null) instead of being refused.
C21_ManagerDeletesManager ==
    [][\A caller \in DOMAIN users, target \in DOMAIN users :
          (/\ users[caller].role = MANAGER
           /\ users[target].role = MANAGER
           /\ target # caller
           /\ deleteUserBegin(1, caller, target))
          => reqs'[1].op = "deleteUser"]_vars

C23_OnlyExecutivesLogCalls ==
    [][\A caller \in DOMAIN users, complete \in BOOLEAN :
          (resp'.op = "createCallLog" /\ createCallLog(caller, complete, "Talked", Null))
          => IF users[caller].role = SALES_EXECUTIVE
             THEN resp'.status = 201
                  => /\ DOMAIN callLogs' = DOMAIN callLogs \cup {nextId.callLog}
                     /\ callLogs'[nextId.callLog].salesExecutive = caller
             ELSE /\ resp'.status = 403
                  /\ callLogs' = callLogs
                  /\ prospects' = prospects]_vars

\* ---------------------------------------------------------------- claim C24
\* the entries of before are the first entries of after, as they were
KeepsEntries(before, after) ==
    /\ Len(after) >= Len(before)
    /\ SubSeq(after, 1, Len(before)) = before

\* C24: every successful transferInternalData appends exactly one
\* TransferLog entry whose dataIds are all the requested ids and whose
\* dataCount is the number of records its update changed (at most the
\* number of dataIds); a failed transfer appends none, and no step of any
\* operation modifies or deletes an existing TransferLog entry.
C24_TransferLogAppendOnly ==
    [][/\ KeepsEntries(transferLogs, transferLogs')
       /\ \A s \in Slots :
             (UpdateStep(s) /\ reqs'[s] # Idle) =>
                LET c == reqs[s].call
                    moved == IF c.dataType = "prospects"
                             THEN Changed(prospects, prospects')
                             ELSE Changed(sales, sales')
                IN /\ reqs'[s].count = Cardinality(moved)
                   /\ reqs'[s].pc = "log"
                   /\ transferLogs' = transferLogs
       /\ \A s \in Slots :
             (reqs[s].op = "transfer" /\ reqs[s].pc = "log" /\ reqs'[s] = Idle) =>
                LET c == reqs[s].call
                    entry == transferLogs'[Len(transferLogs')]
                IN /\ resp'.status = 200
                   /\ Len(transferLogs') = Len(transferLogs) + 1
                   /\ entry.dataIds = c.dataIds
                   /\ entry.dataCount = reqs[s].count
                   /\ entry.dataCount <= Cardinality(c.dataIds)
                   /\ entry.transferredFrom = c.sourceUserId
                   /\ entry.transferredTo = c.targetUserId
       /\ (resp' # resp /\ resp'.op = "transfer" /\ resp'.status # 200)
             => transferLogs' = transferLogs
       /\ transferLogs' # transferLogs
             => resp'.op = "transfer" /\ resp'.status = 200]_vars

\* a transfer that named two prospects and moved one has been logged with
\* both ids and the count 1
C24_Witness ==
    /\ resp.op = "transfer"
    /\ resp.status = 200
    /\ Len(transferLogs) = 1
    /\ transferLogs[1].dataIds = {1, 2}
    /\ transferLogs[1].dataCount = 1

\* ---------------------------------------------------------------- claim C25
\* no two teams share a lead, and a team lead's team field names team t
\* exactly when team t names that user as its lead
LeadsAndTeamsAgree(us, tms) ==
    /\ \A t1 \in DOMAIN tms, t2 \in DOMAIN tms :
          tms[t1].teamLead = tms[t2].teamLead => t1 = t2
    /\ \A u \in DOMAIN us, t \in 1..MaxTeams :
          us[u].role = TEAM_LEAD
          => (us[u].team = t <=> (t \in DOMAIN tms /\ tms[t].teamLead = u))

\* C25: every state a request leaves has no two teams with the same lead and
\* a team lead's team = t exactly when Team t has that lead; createTeam for
\* a lead who already leads a team, and updateTeam reassigning to a lead who
\* leads a different team, fail and change no Team or User.
C25_OneTeamPerLead ==
    [][/\ LeadsAndTeamsAgree(users', teams')
       /\ \A tl \in DOMAIN users :
             (/\ resp'.op = "createTeam"
              /\ TeamsLedBy(teams, tl) # {}
              /\ \E caller \in DOMAIN users : createTeam(caller, tl))
             => resp'.status >= 400 /\ users' = users /\ teams' = teams
       /\ \A tl \in DOMAIN users, teamId \in DOMAIN teams :
             (/\ resp'.op = "updateTeam"
              /\ TeamsLedBy(teams, tl) \ {teamId} # {}
              /\ \E caller \in DOMAIN users : updateTeam(caller, teamId, tl, {}, {}))
             => resp'.status >= 400 /\ users' = users /\ teams' = teams]_vars

\* ---------------------------------------------------------------- claim C26
\* x is the team lead itself or a sales_executive whose manager is the lead
SelfOrReport(us, lead, x) ==
    x = lead \/ (us[x].role = SALES_EXECUTIVE /\ us[x].manager = lead)

\* C26: a well-formed transferInternalData request between stored team
\* leads and executives, made by a team_lead T, whose source or target is
\* neither T nor a sales_executive with manager T (users with no manager
\* included) is answered 403 and changes no Prospect, Sale or TransferLog;
\* a sales_executive caller is always answered 403.
C26_TeamLeadTransfersWithinOwnTeam ==
    [][\A c \in TransferCalls :
          (/\ resp'.op = "transfer"
           /\ c.sourceUserId \in DOMAIN users
           /\ c.targetUserId \in DOMAIN users
           /\ users[c.sourceUserId].role \in {SALES_EXECUTIVE, TEAM_LEAD}
           /\ users[c.targetUserId].role \in {SALES_EXECUTIVE, TEAM_LEAD}
           /\ c.dataIds # {}
           /\ c.dataType \in DataTypes
           /\ \/ users[c.caller].role = SALES_EXECUTIVE
              \/ /\ users[c.caller].role = TEAM_LEAD
                 /\ ~(/\ SelfOrReport(users, c.caller, c.sourceUserId)
                      /\ SelfOrReport(users, c.caller, c.targetUserId))
           /\ transferBegin(1, c))
          => /\ resp'.status = 403
             /\ reqs' = reqs
             /\ prospects' = prospects
             /\ sales' = sales
             /\ transferLogs' = transferLogs]_vars

\* ---------------------------------------------------------------- claim C27
\* no record of coll names user T as its owner or its team lead
NoReferenceTo(coll, T) ==
    \A x \in DOMAIN coll : coll[x].salesExecutive # T /\ coll[x].teamLead # T

\* C27: when a deleteUser completes with 204, no Prospect and no Sale holds
\* a salesExecutive or teamLead reference to the deleted user (deleteTeam
\* removes no user).
C27_DeleteLeavesNoDanglingOwner ==
    [][\A s \in Slots :
          (/\ reqs[s].op = "deleteUser"
           /\ reqs[s].pc = "remove"
           /\ reqs'[s] = Idle)
          => /\ resp'.status = 204
             /\ reqs[s].target \notin DOMAIN users'
             /\ NoReferenceTo(prospects', reqs[s].target)
             /\ NoReferenceTo(sales', reqs[s].target)]_vars

\* ---------------------------------------------------------------- claim C28
\* the prospects whose activity or isUntouched the step changes
TouchedProspects ==
    {p \in DOMAIN prospects \cap DOMAIN prospects' :
        \/ prospects'[p].activity # prospects[p].activity
        \/ prospects'[p].isUntouched # prospects[p].isUntouched}

\* every prospect the step changes is owned by caller or, for a team lead,
\* by a direct report of caller
TouchesOwnScopeOnly(caller) ==
    \A p \in TouchedProspects : prospects[p].salesExecutive \in ScopeOf(users, caller)

\* C28: a request of a sales_executive or team_lead never changes activity
\* or isUntouched of a Prospect outside the caller's scope: the prospectId
\* side effects of createSale, createCallLog and createProspect and the
\* linked-prospect update of updateCallLog only modify a Prospect owned by
\* the caller or, for a team lead, by a direct report.
C28_SideEffectsStayInScope ==
    [][/\ \A caller \in DOMAIN users, prospectId \in AllocProspects :
             (/\ users[caller].role # MANAGER
              /\ prospects' # prospects
              /\ \/ createProspect(caller, TRUE, Null, prospectId)
                 \/ createCallLog(caller, TRUE, "Talked", prospectId))
             => TouchesOwnScopeOnly(caller)
       /\ \A caller \in DOMAIN users, id \in AllocCallLogs :
             (/\ users[caller].role # MANAGER
              /\ prospects' # prospects
              /\ updateCallLog(caller, id,
                               CallLogBody({"activity"}, "Delete Client's Profile")))
             => TouchesOwnScopeOnly(caller)
       /\ (createSaleConvert(1) /\ users[reqs[1].caller].role # MANAGER)
             => TouchesOwnScopeOnly(reqs[1].caller)]_vars

\* ---------------------------------------------------------------- claim C29
\* owner is at present a sales_executive whose manager is lead
ReportsTo(us, owner, lead) ==
    /\ owner \in DOMAIN us
    /\ us[owner].role = SALES_EXECUTIVE
    /\ us[owner].manager = lead

\* C29: getSale answers a team_lead T with the Sale only if the Sale's
\* salesExecutive is T or is at present a sales_executive with manager T; a
\* Sale whose teamLead field is still T but whose executive no longer
\* reports to T is refused with 403.
C29_TeamLeadReadsOnlyReportsSales ==
    [][\A caller \in DOMAIN users, id \in DOMAIN sales :
          (users[caller].role = TEAM_LEAD /\ getSale(caller, id))
          => LET owner == sales[id].salesExecutive
             IN /\ resp'.status = 200
                   => (owner = caller \/ ReportsTo(users, owner, caller))
                /\ (/\ sales[id].teamLead = caller
                    /\ owner # caller
                    /\ ~ReportsTo(users, owner, caller))
                   => resp'.status = 403]_vars

\* ---------------------------------------------------------------- claim C30
\* C30: in every reachable state every Prospect and every Sale has a
\* non-null teamLead; in particular a transfer to a sales_executive whose
\* manager is null never stores teamLead = null on a moved record.
C30_TeamLeadNeverNull ==
    /\ \A p \in DOMAIN prospects : prospects[p].teamLead # Null
    /\ \A x \in DOMAIN sales : sales[x].teamLead # Null

====
